---- MODULE Spec2Model ----
(***************************************************************************)
(* Model of wopr-plugin-irc: the flood pacer (FloodProtector) and the      *)
(* message splitter (splitMessage) of src/src/message-utils.ts, the        *)
(* command and parser dispatch and the outbound sender of the channel      *)
(* provider (src/unnamed/part_001), and the inbound pipeline, the          *)
(* lifecycle and the event handlers of src/src/index.ts.                   *)
(***************************************************************************)
EXTENDS Integers, Sequences, FiniteSets, TLC

(***************************************************************************)
(* Bounds of the model.                                                    *)
(***************************************************************************)
\* number of enqueue calls explored
MaxActions == 4
\* the clock runs freely up to MaxTime (and further only to reach a deadline)
MaxTime == 3
\* delay values are drawn from 1..MaxDelay
MaxDelay == 2
\* a message passed to splitMessage has at most MaxChars characters
MaxChars == 5
\* init, shutdown and send are called at most MaxCalls times
MaxCalls == 3
\* a text handed to send has at most MaxSend characters
MaxSend == 2
\* send is given a maximum message length of 1..MaxLine, or a hundred more
MaxLine == 2
\* the wire clients emit at most MaxEvents events
MaxEvents == 3
\* maxBytes is drawn from -1..MaxBytes
MaxBytes == 5
\* a text passed to handleRegisteredCommand has at most MaxContent code units
MaxContent == 6
\* the message of a privmsg event has at most MaxEvent code units
MaxEvent == 2

(***************************************************************************)
(* FloodProtector (message-utils.ts:94-141).                               *)
(*   queue, timer, delay  the object's fields                              *)
(*   timers               the setTimeout callbacks outstanding in the      *)
(*                        event loop, each [h: handle, deadline: time]     *)
(*   now                  the clock                                        *)
(* History (written, never read, by the operations):                       *)
(*   nextId        number of enqueue calls so far + 1; the k-th enqueued   *)
(*                 action has id k                                         *)
(*   log           the ids of the executed actions, in execution order     *)
(*   recent        the last two executions, oldest first: [id, time,       *)
(*                 delayVal, afterClear, fromIdle, threw], where delayVal  *)
(*                 is the delay field when the action ran, afterClear      *)
(*                 tells whether clear() ran since the execution before,   *)
(*                 and fromIdle whether the action ran in an enqueue call  *)
(*                 made with no timer armed and nothing waiting            *)
(*   discarded     ids removed from the queue by clear()                   *)
(*   atThrow       ids that were in the queue when an action threw         *)
(*   clearedSince  whether clear() ran since the last execution            *)
(*   last          the last call: [op, wasIdle]; wasIdle is kept for an    *)
(*                 enqueue only                                            *)
(***************************************************************************)
VARIABLES queue, timer, delay, timers, now,
          nextId, log, recent, discarded, atThrow, clearedSince, last

fvars == <<queue, timer, delay, timers, now,
           nextId, log, recent, discarded, atThrow, clearedSince, last>>

(***************************************************************************)
(* One call of splitMessage (message-utils.ts:21-52).                      *)
(*   message, maxBytes   the arguments                                     *)
(*   lines, li           message.split(/\r?\n/) and the index of `line`    *)
(*   remaining, chunks   the locals of that name; a chunk is kept with     *)
(*                       the index of its line and the number of code      *)
(*                       units trimmed away at the cut behind it           *)
(*   result              the value returned                                *)
(*   pc                  "idle" (no call), "call", "while", "return",      *)
(*                       "done"                                            *)
(* A string is the sequence of its UTF-16 code units.                      *)
(***************************************************************************)
VARIABLES message, maxBytes, lines, li, remaining, chunks, result, pc

svars == <<message, maxBytes, lines, li, remaining, chunks, result, pc>>

(***************************************************************************)
(* Dispatch (src/unnamed/part_001) and inbound pipeline (index.ts).        *)
(*   registeredCommands, registeredParsers                                 *)
(*            the two Maps, each the sequence of its entries [key, value]  *)
(*            in insertion order                                           *)
(*   ctx, client  the module variables of index.ts: TRUE when set, FALSE   *)
(*            when null                                                    *)
(*   dpc      where the one call in progress stands: "idle", "command"     *)
(*            (awaiting a command handler), "parsers", "parser" (awaiting  *)
(*            a parser handler), "emit", "emitting" (awaiting emit),       *)
(*            "injecting" (awaiting inject), "done"                        *)
(*   req      the arguments and locals of the call in progress             *)
(* History of the call in progress:                                        *)
(*   invoked  the handler invocations, each with the context it was given  *)
(*   tested   the ids of the parsers whose pattern was tested, in order    *)
(*   replies  the calls of replyFn: [msg, sent], sent telling whether the  *)
(*            text was handed on to the wire client                        *)
(*   stages   the pipeline stages entered, in order                        *)
(*   handled  [command, parser]: what the two dispatch functions returned  *)
(*            ("none" before they return), and threw: which handler threw  *)
(***************************************************************************)
VARIABLES registeredCommands, registeredParsers, ctx, client,
          dpc, req, invoked, tested, replies, stages, handled

dvars == <<registeredCommands, registeredParsers, ctx, client,
           dpc, req, invoked, tested, replies, stages, handled>>

(***************************************************************************)
(* Lifecycle (index.ts:31-34, 142-296) and the outbound sender of the      *)
(* channel provider (src/unnamed/part_001:24-41, 76-89).                   *)
(*   floodProtector, currentConfig                                         *)
(*            the module variables of index.ts: floodProtector TRUE when   *)
(*            set, currentConfig a config record or NoConfig               *)
(*   ircClient, providerPacer, maxMsgLength                                *)
(*            the module variables ircClient, floodProtector and           *)
(*            maxMsgLength of the channel provider; the first two TRUE     *)
(*            when set, FALSE when null                                    *)
(*   clients  the wire clients created so far, each [channels, nick,       *)
(*            userNick]: the channels and the nick of the config its       *)
(*            handlers were registered with, and its user.nick; a client   *)
(*            is known by its index, the newest is the one `client` holds  *)
(*   rejoins  the setTimeout callbacks of the kick handler outstanding in  *)
(*            the event loop, each [client, channel, deadline, kick]       *)
(*   sayFns   the closures handed to the pacer by send: sayFns[id] is      *)
(*            [channel, text] for the action enqueued with that id         *)
(* History:                                                                *)
(*   host     the calls made on the host context, in order                 *)
(*   wire     the calls made on the wire clients, in order: [client, op,   *)
(*            arg, text]                                                   *)
(*   events   the events the wire clients emitted, in order: [ev,         *)
(*            client, channel, kicked, nick, at, joins], nick being the    *)
(*            client's user.nick at the event and joins the times at       *)
(*            which the timer armed for a kick ran its join                *)
(*   calls    the number of init, shutdown and send calls made             *)
(*   lastCall the last of these: [op, error, chunks, arg], error "" when   *)
(*            the call returned normally, chunks what splitMessage gave    *)
(*            a send, arg the host config an init was given                *)
(***************************************************************************)
VARIABLES floodProtector, currentConfig, ircClient, providerPacer,
          maxMsgLength, clients, rejoins, sayFns,
          host, wire, events, calls, lastCall

lvars == <<floodProtector, currentConfig, ircClient, providerPacer,
           maxMsgLength, clients, rejoins, sayFns,
           host, wire, events, calls, lastCall>>

vars == <<fvars, svars, dvars, lvars>>

\* timer: ReturnType<typeof setTimeout> | null = null
NoTimer == 0

\* what an enqueued action does when it is called
Kinds == {"ok", "throw"}

Range(s) == {s[i] : i \in 1..Len(s)}

\* the object and its surroundings as one value, threaded through the methods
Here ==
  [queue |-> queue, timer |-> timer, delay |-> delay, timers |-> timers,
   now |-> now, log |-> log, recent |-> recent, discarded |-> discarded,
   atThrow |-> atThrow, clearedSince |-> clearedSince, fromIdle |-> FALSE,
   threw |-> FALSE]

Install(s) ==
  /\ queue' = s.queue
  /\ timer' = s.timer
  /\ delay' = s.delay
  /\ timers' = s.timers
  /\ log' = s.log
  /\ recent' = s.recent
  /\ discarded' = s.discarded
  /\ atThrow' = s.atThrow
  /\ clearedSince' = s.clearedSince

LastTwo(s) == IF Len(s) > 2 THEN Tail(s) ELSE s

\* the kinds of an action that calls back into the pacer running it:
\* "enqueue" calls enqueue(fn.child), "clear" calls clear()
ReentrantKinds == {"enqueue", "clear"}

RECURSIVE call(_, _)
RECURSIVE process(_)
RECURSIVE enqueue(_, _)
RECURSIVE clear(_)

\* fn(): the action runs; one of kind "throw" raises, one of a reentrant
\* kind makes its call on the pacer (an exception raised inside that call
\* leaves fn as well)
call(fn, s) ==
  LET s1 == [s EXCEPT
               !.log = Append(s.log, fn.id),
               !.recent = LastTwo(Append(s.recent,
                            [id |-> fn.id, time |-> s.now, delayVal |-> s.delay,
                             afterClear |-> s.clearedSince,
                             fromIdle |-> s.fromIdle,
                             threw |-> (fn.kind = "throw")])),
               !.clearedSince = FALSE,
               !.threw = (fn.kind = "throw"),
               !.fromIdle = FALSE,
               !.atThrow = IF fn.kind = "throw"
                           THEN s.atThrow \cup
                                  {s.queue[i].id : i \in 1..Len(s.queue)}
                           ELSE s.atThrow]
  IN  CASE fn.kind = "enqueue" -> enqueue(fn.child, s1)
        [] fn.kind = "clear" -> clear(s1)
        [] OTHER -> s1

\* this.timer = setTimeout(() => {...}, this._delay)
arm(h, s) ==
  [s EXCEPT !.timer = h,
            !.timers = s.timers \cup {[h |-> h, deadline |-> s.now + s.delay]}]

\* mutant of process: takes the newest entry (pop) instead of the oldest (shift)
processPop(s) ==
  IF s.timer # NoTimer THEN s
  ELSE IF s.queue = <<>> THEN s
  ELSE LET fn == s.queue[Len(s.queue)]
           s1 == call(fn, [s EXCEPT !.queue = SubSeq(s.queue, 1, Len(s.queue) - 1)])
       IN  IF s1.threw THEN s1 ELSE arm(fn.id, s1)

\* FloodProtector.process
process(s) ==
  IF s.timer # NoTimer THEN s
  ELSE IF s.queue = <<>> THEN s
  ELSE LET fn == Head(s.queue)
           s1 == call(fn, [s EXCEPT !.queue = Tail(s.queue)])
       IN  IF s1.threw THEN s1 ELSE arm(fn.id, s1)

\* mutant of enqueue: queues the action and leaves the processing to the timer
enqueueOnly(fn, s) ==
  IF s.timer # NoTimer \/ s.queue # <<>>
  THEN process([s EXCEPT !.queue = Append(s.queue, fn)])
  ELSE arm(fn.id, [s EXCEPT !.queue = Append(s.queue, fn)])

\* mutant of enqueue: the queue is capped at two waiting actions, a further
\* action is dropped
enqueueCapped(fn, s) ==
  IF Len(s.queue) >= 2 THEN process(s)
  ELSE process([s EXCEPT !.queue = Append(s.queue, fn)])

\* FloodProtector.enqueue
enqueue(fn, s) ==
  process([s EXCEPT !.queue = Append(s.queue, fn)])

\* mutant of clear: cancels the cooldown and keeps the queue
clearTimerOnly(s) ==
  LET s1 == [s EXCEPT !.discarded = s.discarded \cup
                                    {s.queue[i].id : i \in 1..Len(s.queue)},
                      !.clearedSince = TRUE]
  IN  IF s1.timer # NoTimer
      THEN [s1 EXCEPT !.timers = {t \in s1.timers : t.h # s1.timer},
                      !.timer = NoTimer]
      ELSE s1

\* FloodProtector.clear
clear(s) ==
  LET s1 == [s EXCEPT !.queue = <<>>,
                      !.discarded = s.discarded \cup
                                    {s.queue[i].id : i \in 1..Len(s.queue)},
                      !.clearedSince = TRUE]
  IN  IF s1.timer # NoTimer
      THEN [s1 EXCEPT !.timers = {t \in s1.timers : t.h # s1.timer},
                      !.timer = NoTimer]
      ELSE s1

\* mutant of the delay setter: an armed cooldown is rescheduled with the new value
setDelayRearm(value, s) ==
  [s EXCEPT !.delay = value,
            !.timers = {[h |-> t.h, deadline |-> s.now + value] : t \in s.timers}]

\* set delay(value)
setDelay(value, s) == [s EXCEPT !.delay = value]

\* the setTimeout callback of process: this.timer = null; this.process()
onTimeout(s) == process([s EXCEPT !.timer = NoTimer])

\* get pending
pending == Len(queue)

Idle == timer = NoTimer /\ queue = <<>>

\* no splitMessage call
SplitIdle ==
  /\ message = <<>>
  /\ maxBytes = 0
  /\ lines = <<>>
  /\ li = 0
  /\ remaining = <<>>
  /\ chunks = <<>>
  /\ result = <<>>
  /\ pc = "idle"

\* no call of the dispatch functions in progress
NoCall ==
  [fn |-> "none", channel |-> "", sender |-> "", content |-> <<>>,
   prefix |-> <<>>, word |-> <<>>, cmdName |-> <<>>, args |-> <<>>]

NotHandled == [command |-> "none", parser |-> "none", threw |-> "none"]

\* the channel provider as loaded and the plugin after init(): both Maps
\* empty, ctx and client set, no message being handled
DispatchIdle ==
  /\ registeredCommands = <<>>
  /\ registeredParsers = <<>>
  /\ ctx = TRUE
  /\ client = TRUE
  /\ dpc = "idle"
  /\ req = NoCall
  /\ invoked = <<>>
  /\ tested = <<>>
  /\ replies = <<>>
  /\ stages = <<>>
  /\ handled = NotHandled

\* a call on a wire client, as the history keeps it
WireCall(k, op, arg, text) ==
  [client |-> k, op |-> op, arg |-> arg, text |-> text]

\* the closure made for a chunk: () => ircClient?.say(channel, chunk) of send
\* (part_001:82) says on the client the provider holds when it runs,
\* () => client?.say(channel, chunk) of replyFn (index.ts:319) on the client
\* the plugin holds
sayFn(fn, w) ==
  IF (IF fn.via = "reply" THEN client ELSE ircClient)
  THEN Append(w, WireCall(Len(clients), "say", fn.channel, fn.text))
  ELSE w

\* the actions with the ids of `ids` run, in that order: the ones send made
\* are the calls of say they make
RECURSIVE runAll(_, _, _)
runAll(ids, fns, w) ==
  IF ids = <<>> THEN w
  ELSE LET made == {f \in fns : f.id = Head(ids)}
       IN  runAll(Tail(ids), fns,
                  IF made = {} THEN w ELSE sayFn(CHOOSE f \in made : TRUE, w))

\* the ids of the actions run between the pacer states s0 and s1
ranSince(s0, s1) == SubSeq(s1.log, Len(s0.log) + 1, Len(s1.log))

\* no init, shutdown or send call made yet
\* no host config: getConfig() gave undefined, or a config without server,
\* nick, channels, floodDelay and maxMessageLength
NoRaw ==
  [server |-> "", nick |-> "", channels |-> <<>>, floodDelay |-> {},
   maxMessageLength |-> {}]

NoLastCall == [op |-> "none", error |-> "", chunks |-> <<>>, arg |-> NoRaw]

\* the config init() builds from a host config of server "s", nick "bot" and
\* channel "#c" with nothing else given (index.ts:159-171); the fields kept
\* are the ones the model reads
DefaultConfig ==
  [server |-> "s", nick |-> "bot", channels |-> <<"#c">>, floodDelay |-> 500,
   maxMessageLength |-> 512]

\* new IrcFramework.Client() with the handlers of registerEventHandlers
\* registered for config; user.nick is the nick it connects with
newClient(config) ==
  [channels |-> config.channels, nick |-> config.nick, userNick |-> config.nick]

\* the plugin after init() with the host config of DefaultConfig and the
\* flood delay of the pacer: config, pacer and wire client set and handed to
\* the channel provider; the histories start here
PluginRunning ==
  /\ floodProtector = TRUE
  /\ currentConfig = <<[DefaultConfig EXCEPT !.floodDelay = delay]>>
  /\ ircClient = TRUE
  /\ providerPacer = TRUE
  /\ maxMsgLength = DefaultConfig.maxMessageLength
  /\ clients = <<newClient(DefaultConfig)>>
  /\ rejoins = {}
  /\ sayFns = {}
  /\ host = <<>>
  /\ wire = <<>>
  /\ events = <<>>
  /\ lastCall = NoLastCall

FloodInit ==
  /\ queue = <<>>
  /\ timer = NoTimer
  /\ delay \in 1..MaxDelay
  /\ timers = {}
  /\ now = 0
  /\ nextId = 1
  /\ log = <<>>
  /\ recent = <<>>
  /\ discarded = {}
  /\ atThrow = {}
  /\ clearedSince = FALSE
  /\ last = [op |-> "new", wasIdle |-> FALSE]

Init == FloodInit /\ SplitIdle /\ DispatchIdle /\ PluginRunning /\ calls = 0

Enqueue ==
  /\ nextId <= MaxActions
  /\ \E k \in Kinds :
       Install(enqueue([id |-> nextId, kind |-> k],
                       [Here EXCEPT !.fromIdle = Idle]))
  /\ nextId' = nextId + 1
  /\ last' = [op |-> "enqueue", wasIdle |-> Idle]
  /\ UNCHANGED <<now, svars, dvars, lvars>>

Clear ==
  /\ Install(clear(Here))
  /\ last' = [op |-> "clear", wasIdle |-> FALSE]
  /\ UNCHANGED <<now, nextId, svars, dvars, lvars>>

SetDelay ==
  /\ \E v \in 1..MaxDelay : v # delay /\ Install(setDelay(v, Here))
  /\ last' = [op |-> "other", wasIdle |-> FALSE]
  /\ UNCHANGED <<now, nextId, svars, dvars, lvars>>

TimerFire ==
  /\ \E t \in timers :
       LET s1 == onTimeout([Here EXCEPT !.timers = timers \ {t}])
       IN  /\ now >= t.deadline
           /\ Install(s1)
           /\ wire' = runAll(ranSince(Here, s1), sayFns, wire)
  /\ last' = [op |-> "other", wasIdle |-> FALSE]
  /\ UNCHANGED <<now, nextId, svars, dvars, floodProtector, currentConfig,
                 ircClient, providerPacer, maxMsgLength, clients, rejoins,
                 sayFns, host, events, calls, lastCall>>

Tick ==
  /\ \/ now < MaxTime
     \/ \E t \in timers : now < t.deadline
  /\ now' = now + 1
  /\ UNCHANGED <<queue, timer, delay, timers, nextId, log, recent,
                 discarded, atThrow, clearedSince, last, svars, dvars, lvars>>

Next == Enqueue \/ Clear \/ SetDelay \/ TimerFire \/ Tick

\* enqueue(fn) with an fn that calls enqueue or clear on the same pacer
\* when it runs (message-utils.ts:111-114, 121)
EnqueueReentrant ==
  /\ nextId < MaxActions
  /\ \E k \in ReentrantKinds :
       /\ Install(enqueue([id |-> nextId, kind |-> k,
                           child |-> [id |-> nextId + 1, kind |-> "ok"]],
                          [Here EXCEPT !.fromIdle = Idle]))
       /\ nextId' = IF k = "enqueue" THEN nextId + 2 ELSE nextId + 1
  /\ last' = [op |-> "enqueue", wasIdle |-> Idle]
  /\ UNCHANGED <<now, svars, dvars, lvars>>

ReentrantNext ==
  Enqueue \/ EnqueueReentrant \/ Clear \/ SetDelay \/ TimerFire \/ Tick

\* the pacer with actions that call back into it
ReentrantSpec == Init /\ [][ReentrantNext]_vars

Spec == Init /\ [][Next]_vars

\* timers fire once due, and time passes
FairSpec == Spec /\ WF_vars(TimerFire) /\ WF_vars(Tick)

(***************************************************************************)
(* splitMessage (message-utils.ts:21-89).                                  *)
(* Code units: "a" (1 byte in UTF-8), "sp" (the space, 1 byte), "e2"       *)
(* (a 2-byte character such as U+00E9), "hi" and "lo" (the two surrogates  *)
(* of a 4-byte character such as U+1F600), "nl" (line feed).               *)
(***************************************************************************)
Chars == {<<"a">>, <<"sp">>, <<"e2">>, <<"hi", "lo">>, <<"nl">>}

RECURSIVE Flatten(_)
Flatten(cs) == IF cs = <<>> THEN <<>> ELSE Head(cs) \o Flatten(Tail(cs))

\* the well-formed strings of at most MaxChars characters
Texts == {Flatten(cs) : cs \in UNION {[1..n -> Chars] : n \in 0..MaxChars}}

Min(a, b) == IF a <= b THEN a ELSE b

\* String.prototype.slice(from) and slice(0, to), for 0 <= from, to
sliceFrom(s, from) == SubSeq(s, from + 1, Len(s))
sliceTo(s, to) == SubSeq(s, 1, Min(to, Len(s)))

\* Buffer.byteLength(s, "utf8"): a surrogate pair takes 4 bytes, a surrogate
\* without its partner is encoded as U+FFFD, 3 bytes
RECURSIVE byteLength(_)
byteLength(s) ==
  IF s = <<>> THEN 0
  ELSE IF Len(s) >= 2 /\ s[1] = "hi" /\ s[2] = "lo"
       THEN 4 + byteLength(sliceFrom(s, 2))
  ELSE (CASE s[1] = "e2" -> 2
          [] s[1] \in {"hi", "lo"} -> 3
          [] OTHER -> 1) + byteLength(Tail(s))

IsSpace(u) == u \in {"sp", "nl"}

\* String.prototype.trimEnd, trimStart
RECURSIVE trimEnd(_)
trimEnd(s) ==
  IF s # <<>> /\ IsSpace(s[Len(s)]) THEN trimEnd(SubSeq(s, 1, Len(s) - 1)) ELSE s

RECURSIVE trimStart(_)
trimStart(s) ==
  IF s # <<>> /\ IsSpace(s[1]) THEN trimStart(Tail(s)) ELSE s

\* segment.lastIndexOf(" "): the 0-based index, -1 when there is none
lastIndexOfSpace(s) ==
  LET at == {i \in 1..Len(s) : s[i] = "sp"}
  IN  IF at = {} THEN 0 - 1 ELSE (CHOOSE i \in at : \A j \in at : j <= i) - 1

\* message.split(/\r?\n/)
RECURSIVE splitLines(_)
splitLines(s) ==
  LET at == {i \in 1..Len(s) : s[i] = "nl"}
  IN  IF at = {} THEN <<s>>
      ELSE LET i == CHOOSE k \in at : \A j \in at : k <= j
           IN  <<SubSeq(s, 1, i - 1)>> \o splitLines(sliceFrom(s, i))

\* findSplitPoint, the loop of lines 62-64
RECURSIVE shrink(_, _, _)
shrink(text, max, end) ==
  IF end > 0 /\ byteLength(sliceTo(text, end)) > max
  THEN shrink(text, max, end - 1)
  ELSE end

\* mutant of findSplitPoint: takes maxBytes as a number of code units
findSplitPointUnits(text, max) ==
  LET end == Min(Len(text), max)
      lastSpace == lastIndexOfSpace(sliceTo(text, end))
  IN  IF end = 0 THEN 1
      ELSE IF 2 * lastSpace > end THEN lastSpace + 1
      ELSE end

\* mutant of findSplitPoint: without the return of line 66, the cut is at 0
\* when not even the first code unit fits
findSplitPointZero(text, max) ==
  LET end == shrink(text, max, Min(Len(text), max))
      lastSpace == lastIndexOfSpace(sliceTo(text, end))
  IN  IF 2 * lastSpace > end THEN lastSpace + 1
      ELSE end

\* findSplitPoint
findSplitPoint(text, max) ==
  LET end == shrink(text, max, Min(Len(text), max))
      lastSpace == lastIndexOfSpace(sliceTo(text, end))
  IN  IF end = 0 THEN 1
      ELSE IF 2 * lastSpace > end THEN lastSpace + 1
      ELSE end

\* findByteSafeIndex
RECURSIVE byteSafeFrom(_, _, _)
byteSafeFrom(text, max, idx) ==
  IF idx < Len(text) /\ byteLength(sliceTo(text, idx + 1)) <= max
  THEN byteSafeFrom(text, max, idx + 1)
  ELSE idx

findByteSafeIndex(text, max) == byteSafeFrom(text, max, 1)

\* a pushed chunk, with the number of code units trimmed at the cut behind it
Chunk(text, trimmed) == [text |-> text, line |-> li, trimmed |-> trimmed]

\* mutant of splitOnce: the cut always skips one code unit, as if a space
\* were there
splitOnceSkip(rem, line, max) ==
  LET splitAt == findSplitPoint(rem, max)
      head == sliceTo(rem, splitAt)
      rest == sliceFrom(rem, splitAt + 1)
      c1 == Chunk(trimEnd(head),
                  (Len(head) - Len(trimEnd(head)))
                    + (Len(rest) - Len(trimStart(rest))))
  IN  [pushed |-> <<c1>>, remaining |-> trimStart(rest)]

\* one pass of the while loop on a remaining text longer than maxBytes
\* (lines 37-47): the chunks pushed and the new remaining text
splitOnce(rem, line, max) ==
  LET splitAt == findSplitPoint(rem, max)
      head == sliceTo(rem, splitAt)
      rest == sliceFrom(rem, splitAt)
      c1 == Chunk(trimEnd(head),
                  (Len(head) - Len(trimEnd(head)))
                    + (Len(rest) - Len(trimStart(rest))))
      rem1 == trimStart(rest)
  IN  IF Len(rem1) = Len(line)
      THEN LET at == findByteSafeIndex(rem1, max)
           IN  [pushed |-> <<c1, Chunk(sliceTo(rem1, at), 0)>>,
                remaining |-> sliceFrom(rem1, at)]
      ELSE [pushed |-> <<c1>>, remaining |-> rem1]

\* chunks.filter((c) => c.length > 0)
NonEmpty(c) == c.text # <<>>
filterNonEmpty(cs) ==
  LET kept == SelectSeq(cs, NonEmpty)
  IN  [i \in 1..Len(kept) |-> kept[i].text]

\* no FloodProtector in use
FloodUnused ==
  /\ queue = <<>>
  /\ timer = NoTimer
  /\ delay = 1
  /\ timers = {}
  /\ now = 0
  /\ nextId = 1
  /\ log = <<>>
  /\ recent = <<>>
  /\ discarded = {}
  /\ atThrow = {}
  /\ clearedSince = FALSE
  /\ last = [op |-> "new", wasIdle |-> FALSE]

SplitArgs ==
  /\ message \in Texts
  /\ maxBytes \in (0 - 1)..MaxBytes
  /\ lines = <<>>
  /\ li = 0
  /\ remaining = <<>>
  /\ chunks = <<>>
  /\ result = <<>>
  /\ pc = "call"

\* lines 22-28: the early return, or the first line
SplitCall ==
  /\ pc = "call"
  /\ IF maxBytes <= 0
     THEN /\ result' = <<message>>
          /\ pc' = "done"
          /\ UNCHANGED <<lines, li, remaining>>
     ELSE /\ lines' = splitLines(message)
          /\ li' = 1
          /\ remaining' = lines'[1]
          /\ pc' = "while"
          /\ UNCHANGED result
  /\ UNCHANGED <<message, maxBytes, chunks, fvars, dvars, lvars>>

\* the for loop goes to the next line, or ends
NextLine ==
  IF li < Len(lines)
  THEN /\ li' = li + 1
       /\ remaining' = lines[li + 1]
       /\ pc' = "while"
  ELSE /\ pc' = "return"
       /\ UNCHANGED <<li, remaining>>

\* lines 30-35: the remaining text fits, it is pushed and the loop is left
WhileFits ==
  /\ pc = "while"
  /\ Len(remaining) > 0
  /\ byteLength(remaining) <= maxBytes
  /\ chunks' = Append(chunks, Chunk(remaining, 0))
  /\ NextLine
  /\ UNCHANGED <<message, maxBytes, lines, result, fvars, dvars, lvars>>

\* lines 30-47: the remaining text does not fit, a chunk is cut off
WhileSplit ==
  /\ pc = "while"
  /\ Len(remaining) > 0
  /\ byteLength(remaining) > maxBytes
  /\ LET r == splitOnce(remaining, lines[li], maxBytes)
     IN  /\ chunks' = chunks \o r.pushed
         /\ remaining' = r.remaining
  /\ UNCHANGED <<message, maxBytes, lines, li, result, pc, fvars, dvars, lvars>>

\* line 30: nothing remains of the line
WhileExit ==
  /\ pc = "while"
  /\ Len(remaining) = 0
  /\ NextLine
  /\ UNCHANGED <<message, maxBytes, lines, chunks, result, fvars, dvars, lvars>>

\* line 51
SplitReturn ==
  /\ pc = "return"
  /\ result' = filterNonEmpty(chunks)
  /\ pc' = "done"
  /\ UNCHANGED <<message, maxBytes, lines, li, remaining, chunks, fvars, dvars, lvars>>

SplitNext == SplitCall \/ WhileFits \/ WhileSplit \/ WhileExit \/ SplitReturn

SplitInit == FloodUnused /\ SplitArgs /\ DispatchIdle /\ PluginRunning /\ calls = 0

SplitSpec == SplitInit /\ [][SplitNext]_vars

(***************************************************************************)
(* Dispatch: the channel provider (src/unnamed/part_001).                  *)
(* A text is the sequence of its code units: "!" (the usual prefix), "a"   *)
(* and "A" (one letter in both cases), "sp" (a space), "1" (a digit),      *)
(* "b02" (U+0002, bold: one of the one-unit formatting codes) and "c03"    *)
(* (U+0003, the colour introducer).                                        *)
(***************************************************************************)
ContentChars == {"!", "a", "A", "sp"}
EventChars == ContentChars \cup {"1", "b02", "c03"}

\* the texts given to handleRegisteredCommand, and the raw event messages
Contents == UNION {[1..n -> ContentChars] : n \in 0..MaxContent}
Events == UNION {[1..n -> EventChars] : n \in 0..MaxEvent}

Prefixes == {<<"!">>, <<"!", "!">>}
CmdNames == {<<"a">>, <<"A">>}
Handlers == {"h1", "h2"}
ParserIds == {"p1", "p2"}
\* "reLowerG" is the regular expression /a/g, "fnUpper" the predicate
\* (msg) => msg.includes("A")
Patterns == {"reLowerG", "fnUpper"}
Targets == {"#c", "u"}
Nicks == {"u", "v"}
BotNick == "bot"

\* String.prototype.toLowerCase
Lower(u) == IF u = "A" THEN "a" ELSE u
toLowerCase(s) == [i \in 1..Len(s) |-> Lower(s[i])]

\* String.prototype.trim, startsWith
trim(s) == trimEnd(trimStart(s))
startsWith(s, p) == Len(p) <= Len(s) /\ SubSeq(s, 1, Len(p)) = p

\* s.split(/\s+/): cur is the token being read; a text that begins (ends)
\* with whitespace gives an empty first (last) token
RECURSIVE splitWhitespace(_, _)
splitWhitespace(s, cur) ==
  IF s = <<>> THEN <<cur>>
  ELSE IF IsSpace(s[1]) THEN <<cur>> \o splitWhitespace(trimStart(s), <<>>)
  ELSE splitWhitespace(Tail(s), Append(cur, s[1]))

\* Map: get (the index of the entry, 0 when absent), set (an existing key
\* keeps its place), delete
keyIndex(m, k) ==
  LET at == {i \in 1..Len(m) : m[i].key = k}
  IN  IF at = {} THEN 0 ELSE CHOOSE i \in at : TRUE

mapSet(m, k, v) ==
  IF keyIndex(m, k) = 0
  THEN Append(m, [key |-> k, value |-> v])
  ELSE [m EXCEPT ![keyIndex(m, k)] = [key |-> k, value |-> v]]

mapDelete(m, k) == SelectSeq(m, LAMBDA e : e.key # k)

\* The registry operations are called by the host and by other plugins
\* between messages, or before handleRegisteredParsers reads its Map. The
\* Maps are read before the first await of each dispatch function only
\* (lines 113 and 146), so an operation during the await of a handler, of
\* emit or of inject is not seen by the call in progress.
RegistryOpen == dpc \in {"idle", "parsers"}

\* registerCommand, unregisterCommand (part_001:50-57)
RegisterCommand ==
  /\ RegistryOpen
  /\ \E n \in CmdNames, h \in Handlers :
       /\ registeredCommands' =
            mapSet(registeredCommands, n, [name |-> n, handler |-> h])
       /\ registeredCommands' # registeredCommands
  /\ UNCHANGED <<registeredParsers, ctx, client, dpc, req, invoked, tested,
                 replies, stages, handled, fvars, svars, lvars>>

UnregisterCommand ==
  /\ RegistryOpen
  /\ \E n \in CmdNames :
       /\ keyIndex(registeredCommands, n) # 0
       /\ registeredCommands' = mapDelete(registeredCommands, n)
  /\ UNCHANGED <<registeredParsers, ctx, client, dpc, req, invoked, tested,
                 replies, stages, handled, fvars, svars, lvars>>

\* addMessageParser, removeMessageParser (part_001:63-70); a regular
\* expression comes with its lastIndex, 0 for a new one
AddMessageParser ==
  /\ RegistryOpen
  /\ \E id \in ParserIds, p \in Patterns :
       /\ registeredParsers' =
            mapSet(registeredParsers, id,
                   [id |-> id, pattern |-> p, lastIndex |-> 0])
       /\ registeredParsers' # registeredParsers
  /\ UNCHANGED <<registeredCommands, ctx, client, dpc, req, invoked, tested,
                 replies, stages, handled, fvars, svars, lvars>>

RemoveMessageParser ==
  /\ RegistryOpen
  /\ \E id \in ParserIds :
       /\ keyIndex(registeredParsers, id) # 0
       /\ registeredParsers' = mapDelete(registeredParsers, id)
  /\ UNCHANGED <<registeredCommands, ctx, client, dpc, req, invoked, tested,
                 replies, stages, handled, fvars, svars, lvars>>

\* replyFn (index.ts:314-327): the text is handed on to the wire client,
\* unless the client is gone
replyFn(msg, rs) == Append(rs, [msg |-> msg, sent |-> client])

\* the texts of the replies
HandlerText == <<"reply of the handler">>
StreamText == <<"streamed text">>
ResponseText == <<"response">>
ErrorText(prefix, cmdName) ==
  <<"Error executing ">> \o prefix \o cmdName \o <<": ", "Error: boom">>

\* mutant of lookupCommand: the prefix is not required
lookupCommandAnyPrefix(content, prefix, cmds) ==
  LET trimmed == trim(content)
      parts == splitWhitespace(sliceFrom(trimmed, Len(prefix)), <<>>)
      cmdName == toLowerCase(parts[1])
      i == keyIndex(cmds, cmdName)
  IN  IF i = 0
      THEN [found |-> FALSE, word |-> <<>>, cmdName |-> <<>>, args |-> <<>>]
      ELSE [found |-> TRUE, word |-> parts[1], cmdName |-> cmdName,
            args |-> Tail(parts), cmd |-> cmds[i].value]

\* handleRegisteredCommand, lines 106-114: the command looked up
lookupCommand(content, prefix, cmds) ==
  LET trimmed == trim(content)
      parts == splitWhitespace(sliceFrom(trimmed, Len(prefix)), <<>>)
      cmdName == toLowerCase(parts[1])
      i == keyIndex(cmds, cmdName)
  IN  IF ~startsWith(trimmed, prefix) \/ i = 0
      THEN [found |-> FALSE, word |-> <<>>, cmdName |-> <<>>, args |-> <<>>]
      ELSE [found |-> TRUE, word |-> parts[1], cmdName |-> cmdName,
            args |-> Tail(parts), cmd |-> cmds[i].value]

\* handleRegisteredCommand, lines 106-127, up to the await of the handler:
\* `after` is where the caller goes on when the command is not found
handleRegisteredCommand(fn, target, sender, content, prefix, after) ==
  LET r == lookupCommand(content, prefix, registeredCommands)
  IN  /\ req' = [fn |-> fn, channel |-> target, sender |-> sender,
                  content |-> content, prefix |-> prefix, word |-> r.word,
                  cmdName |-> r.cmdName, args |-> r.args]
      /\ invoked' =
           IF r.found
           THEN <<[kind |-> "command", key |-> r.cmd.name,
                   handler |-> r.cmd.handler, channel |-> target,
                   channelType |-> "irc", sender |-> sender,
                   args |-> r.args, content |-> <<>>]>>
           ELSE <<>>
      /\ handled' = [NotHandled EXCEPT
                       !.command = IF r.found THEN "none" ELSE "false"]
      /\ dpc' = IF r.found THEN "command" ELSE after
      /\ tested' = <<>>
      /\ replies' = <<>>

\* a call of handleRegisteredCommand from outside the pipeline
CallCommand ==
  /\ dpc = "idle"
  /\ \E target \in Targets, sender \in Nicks, content \in Contents,
        prefix \in Prefixes :
       handleRegisteredCommand("handleRegisteredCommand", target, sender,
                               content, prefix, "done")
  /\ stages' = <<>>
  /\ UNCHANGED <<registeredCommands, registeredParsers, ctx, client,
                 fvars, svars, lvars>>

\* mutant of commandSettled: the error of the handler is passed on to the
\* caller, with no reply
commandSettledRethrow(threw, said, rs) ==
  LET r1 == IF said THEN replyFn(HandlerText, rs) ELSE rs
  IN  IF threw
      THEN [replies |-> r1, result |-> "rejected"]
      ELSE [replies |-> r1, result |-> "true"]

\* handleRegisteredCommand, lines 127-134: the handler, which may have
\* replied (said), has returned or thrown
commandSettled(threw, said, rs) ==
  LET r1 == IF said THEN replyFn(HandlerText, rs) ELSE rs
  IN  IF threw
      THEN [replies |-> replyFn(ErrorText(req.prefix, req.cmdName), r1),
            result |-> "true"]
      ELSE [replies |-> r1, result |-> "true"]

\* mutant of afterCommand: the parsers are tried after a command as well
afterCommandTryParsers(res, threw) ==
  IF res = "rejected" THEN "done" ELSE "parsers"

\* mutant of afterCommand: a command that failed is left to the parsers
afterCommandFallThrough(res, threw) ==
  IF res = "true" /\ ~threw THEN "done"
  ELSE IF res = "rejected" THEN "done"
  ELSE "parsers"

\* index.ts:330-331: where handleIncomingMessage goes on after the command
\* dispatch
afterCommand(res, threw) ==
  IF res \in {"true", "rejected"} THEN "done" ELSE "parsers"

CommandSettle ==
  /\ dpc = "command"
  /\ \E threw \in BOOLEAN, said \in BOOLEAN :
       LET r == commandSettled(threw, said, replies)
       IN  /\ replies' = r.replies
           /\ handled' = [handled EXCEPT
                            !.command = r.result,
                            !.threw = IF threw THEN "command" ELSE "none"]
           /\ dpc' = IF req.fn = "privmsg"
                     THEN afterCommand(r.result, threw)
                     ELSE "done"
  /\ UNCHANGED <<registeredCommands, registeredParsers, ctx, client, req,
                 invoked, tested, stages, fvars, svars, lvars>>

\* the caller has the result: the call is over
Return ==
  /\ dpc = "done"
  /\ dpc' = "idle"
  /\ req' = NoCall
  /\ invoked' = <<>>
  /\ tested' = <<>>
  /\ replies' = <<>>
  /\ stages' = <<>>
  /\ handled' = NotHandled
  /\ UNCHANGED <<registeredCommands, registeredParsers, ctx, client,
                 fvars, svars, lvars>>

CommandNext ==
  RegisterCommand \/ UnregisterCommand \/ CallCommand \/ CommandSettle
    \/ Return

CommandInit == FloodUnused /\ SplitIdle /\ DispatchIdle /\ PluginRunning /\ calls = 0

CommandSpec == CommandInit /\ [][CommandNext]_vars

(***************************************************************************)
(* Parser dispatch (part_001:140-179) and the inbound pipeline             *)
(* (index.ts:298-368).  One message is in the pipeline at a time; the      *)
(* registry operations and shutdown may run at every await.                *)
(***************************************************************************)
IsDigit(u) == u = "1"

\* \d{1,2}: how many digits are taken at the front of s
digitsAt(s) ==
  IF Len(s) >= 2 /\ IsDigit(s[1]) /\ IsDigit(s[2]) THEN 2
  ELSE IF Len(s) >= 1 /\ IsDigit(s[1]) THEN 1
  ELSE 0

\* \x03(\d{1,2}(,\d{1,2})?)?: the length of the colour sequence at the
\* front of s
colourLength(s) ==
  LET fg == digitsAt(Tail(s))
      behind == sliceFrom(s, 1 + fg)
      bg == IF fg > 0 /\ behind # <<>> /\ behind[1] = ","
            THEN digitsAt(Tail(behind)) ELSE 0
  IN  1 + fg + (IF bg > 0 THEN 1 + bg ELSE 0)

\* stripFormatting: message.replace(IRC_FORMAT_REGEX, "")
RECURSIVE stripFormatting(_)
stripFormatting(s) ==
  IF s = <<>> THEN <<>>
  ELSE IF s[1] = "b02" THEN stripFormatting(Tail(s))
  ELSE IF s[1] = "c03" THEN stripFormatting(sliceFrom(s, colourLength(s)))
  ELSE <<s[1]>> \o stripFormatting(Tail(s))

\* /a/g.test(text) with the search starting at lastIndex: the result and
\* the lastIndex left behind
regexTest(text, lastIndex) ==
  LET at == {i \in (lastIndex + 1)..Len(text) : text[i] = "a"}
  IN  IF at = {} THEN [matches |-> FALSE, lastIndex |-> 0]
      ELSE [matches |-> TRUE,
            lastIndex |-> CHOOSE i \in at : \A j \in at : i <= j]

\* handleRegisteredParsers, lines 147-155: the pattern of one parser is
\* tested
testPattern(parser, content) ==
  IF parser.pattern = "fnUpper"
  THEN [matches |-> \E i \in 1..Len(content) : content[i] = "A",
        parser |-> parser]
  ELSE LET t == regexTest(content, 0)
       IN  [matches |-> t.matches,
            parser |-> [parser EXCEPT !.lastIndex = t.lastIndex]]

\* mutant of tryParsers: every pattern is tested, the last match is taken
RECURSIVE tryParsersLast(_, _, _)
tryParsersLast(ps, i, content) ==
  IF i > Len(ps) THEN [parsers |-> ps, tested |-> <<>>, match |-> 0]
  ELSE LET t == testPattern(ps[i].value, content)
           ps1 == [ps EXCEPT ![i].value = t.parser]
           r == tryParsersLast(ps1, i + 1, content)
       IN  [parsers |-> r.parsers,
            tested |-> <<ps[i].key>> \o r.tested,
            match |-> IF r.match = 0 /\ t.matches THEN i ELSE r.match]

\* handleRegisteredParsers, lines 146-156: the loop from entry i on, up to
\* the first match: the Map with the lastIndex of the patterns tested, the
\* ids tested, and the index of the match (0: none)
RECURSIVE tryParsers(_, _, _)
tryParsers(ps, i, content) ==
  IF i > Len(ps) THEN [parsers |-> ps, tested |-> <<>>, match |-> 0]
  ELSE LET t == testPattern(ps[i].value, content)
           ps1 == [ps EXCEPT ![i].value = t.parser]
       IN  IF t.matches
           THEN [parsers |-> ps1, tested |-> <<ps[i].key>>, match |-> i]
           ELSE LET r == tryParsers(ps1, i + 1, content)
                IN  [r EXCEPT !.tested = <<ps[i].key>> \o r.tested]

\* handleRegisteredParsers, lines 146-168, up to the await of the handler
handleRegisteredParsers ==
  LET r == tryParsers(registeredParsers, 1, req.content)
  IN  /\ registeredParsers' = r.parsers
      /\ tested' = r.tested
      /\ invoked' =
           IF r.match # 0
           THEN Append(invoked,
                       [kind |-> "parser", key |-> r.parsers[r.match].key,
                        handler |-> r.parsers[r.match].value.id,
                        channel |-> req.channel, channelType |-> "irc",
                        sender |-> req.sender, args |-> <<>>,
                        content |-> req.content])
           ELSE invoked
      /\ handled' = IF r.match # 0 THEN handled
                    ELSE [handled EXCEPT !.parser = "false"]
      /\ dpc' = IF r.match # 0 THEN "parser" ELSE "emit"

\* commandPrefix: rawConfig.commandPrefix ?? "!" (index.ts:170)
DefaultPrefix == <<"!">>

\* the privmsg handler (index.ts:246-250) and handleIncomingMessage up to
\* its first await (lines 299-330), under the default configuration
Privmsg ==
  /\ dpc = "idle"
  /\ \E ev \in Events, target \in {"#c", BotNick}, nick \in {"u"} :
       LET isPrivate == client /\ target = BotNick
           channel == IF isPrivate THEN nick ELSE target
       IN  handleRegisteredCommand("privmsg", channel, nick,
                                   stripFormatting(ev), DefaultPrefix,
                                   "parsers")
  /\ stages' = <<"strip", "command">>
  /\ UNCHANGED <<registeredCommands, registeredParsers, ctx, client,
                 fvars, svars, lvars>>

\* index.ts:334: the command dispatch returned false
ParserDispatch ==
  /\ dpc = "parsers"
  /\ stages' = Append(stages, "parsers")
  /\ handleRegisteredParsers
  /\ UNCHANGED <<registeredCommands, ctx, client, req, replies, fvars, svars, lvars>>

\* mutant of parserSettled: the error of the handler is passed on
parserSettledRethrow(threw) == IF threw THEN "rejected" ELSE "true"

\* handleRegisteredParsers, lines 168-174: the handler returned or threw
parserSettled(threw) == IF threw THEN "false" ELSE "true"

\* mutant of afterParsers: a parser that failed consumes the message
afterParsersConsume(res, threw) ==
  IF res = "false" /\ ~threw THEN "emit" ELSE "done"

\* index.ts:334-335: where handleIncomingMessage goes on after the parser
\* dispatch
afterParsers(res, threw) ==
  IF res \in {"true", "rejected"} THEN "done" ELSE "emit"

ParserSettle ==
  /\ dpc = "parser"
  /\ \E threw \in BOOLEAN, said \in BOOLEAN :
       /\ replies' = IF said THEN replyFn(HandlerText, replies) ELSE replies
       /\ handled' = [handled EXCEPT
                        !.parser = parserSettled(threw),
                        !.threw = IF threw THEN "parser" ELSE "none"]
       /\ dpc' = afterParsers(parserSettled(threw), threw)
  /\ UNCHANGED <<registeredCommands, registeredParsers, ctx, client, req,
                 invoked, tested, stages, fvars, svars, lvars>>

\* index.ts:348-350: inject is called when the context is there
injectOrReturn(st) ==
  IF ctx THEN [stages |-> Append(st, "inject"), dpc |-> "injecting"]
  ELSE [stages |-> st, dpc |-> "done"]

\* index.ts:338-339: emit is called when the context is there; without it
\* neither emit nor inject is called
Emit ==
  /\ dpc = "emit"
  /\ IF ctx
     THEN /\ stages' = Append(stages, "emit")
          /\ dpc' = "emitting"
     ELSE /\ stages' = stages
          /\ dpc' = "done"
  /\ UNCHANGED <<registeredCommands, registeredParsers, ctx, client, req,
                 invoked, tested, replies, handled, fvars, svars, lvars>>

\* index.ts:339-350: emit has completed, or has rejected (the rejection
\* leaves handleIncomingMessage)
EmitSettle ==
  /\ dpc = "emitting"
  /\ \E rejected \in BOOLEAN :
       IF rejected
       THEN /\ stages' = Append(stages, "emit rejected")
            /\ dpc' = "done"
       ELSE LET r == injectOrReturn(Append(stages, "emit done"))
            IN  /\ stages' = r.stages
                /\ dpc' = r.dpc
  /\ UNCHANGED <<registeredCommands, registeredParsers, ctx, client, req,
                 invoked, tested, replies, handled, fvars, svars, lvars>>

\* index.ts:354-358: while inject is awaited the host calls onStream with a
\* text, which is replied at once; one such call is explored
InjectStream ==
  /\ dpc = "injecting"
  /\ \A k \in 1..Len(replies) : replies[k].msg # StreamText
  /\ replies' = replyFn(StreamText, replies)
  /\ UNCHANGED <<registeredCommands, registeredParsers, ctx, client, dpc, req,
                 invoked, tested, stages, handled, fvars, svars, lvars>>

\* mutant of injectSettled: a failed inject is answered with an error text,
\* as a failed command is
injectSettledErrorReply(outcome, rs) ==
  CASE outcome = "text" -> replyFn(ResponseText, rs)
    [] outcome = "throw" -> replyFn(<<"Error processing message">>, rs)
    [] OTHER -> rs

\* index.ts:361-366: a returned text is replied; a rejection is caught and
\* logged
injectSettled(outcome, rs) ==
  IF outcome = "text" THEN replyFn(ResponseText, rs) ELSE rs

\* index.ts:350-366: inject returns a text, returns nothing or rejects
InjectSettle ==
  /\ dpc = "injecting"
  /\ \E outcome \in {"text", "nothing", "throw"} :
       /\ replies' = injectSettled(outcome, replies)
       /\ stages' = Append(stages, IF outcome = "throw"
                                   THEN "inject failed" ELSE "inject done")
  /\ dpc' = "done"
  /\ UNCHANGED <<registeredCommands, registeredParsers, ctx, client, req,
                 invoked, tested, handled, fvars, svars, lvars>>

\* mutant of shutdownClient: quits and forgets to drop the reference
shutdownClientKept(w) ==
  IF client
  THEN [wire |-> Append(w, WireCall(Len(clients), "quit", "WOPR shutting down", <<>>)),
        client |-> TRUE]
  ELSE [wire |-> w, client |-> client]

\* index.ts:218-221: if (client) { client.quit(...); client = null; }
shutdownClient(w) ==
  IF client
  THEN [wire |-> Append(w, WireCall(Len(clients), "quit", "WOPR shutting down", <<>>)),
        client |-> FALSE]
  ELSE [wire |-> w, client |-> client]

\* index.ts:215-217: if (ctx?.unregisterChannelProvider) {...}; the host
\* offers the method
shutdownHost(h) ==
  IF ctx THEN Append(h, [op |-> "unregisterChannelProvider", arg |-> "irc"])
  ELSE h

\* plugin.shutdown (index.ts:208-227)
Shutdown ==
  /\ calls < MaxCalls
  /\ IF floodProtector
     THEN /\ Install(clear(Here))
          /\ last' = [op |-> "clear", wasIdle |-> FALSE]
     ELSE UNCHANGED <<queue, timer, delay, timers, log, recent, discarded,
                      atThrow, clearedSince, last>>
  /\ floodProtector' = FALSE
  /\ providerPacer' = FALSE
  /\ host' = shutdownHost(host)
  /\ wire' = shutdownClient(wire).wire
  /\ client' = shutdownClient(wire).client
  /\ ircClient' = FALSE
  /\ currentConfig' = <<>>
  /\ ctx' = FALSE
  /\ calls' = calls + 1
  /\ lastCall' = [op |-> "shutdown", error |-> "", chunks |-> <<>>,
                  arg |-> NoRaw]
  /\ UNCHANGED <<now, nextId, maxMsgLength, clients, rejoins, sayFns, events,
                 registeredCommands, registeredParsers, dpc, req, invoked,
                 tested, replies, stages, handled, svars>>

PipelineNext ==
  RegisterCommand \/ UnregisterCommand \/ AddMessageParser
    \/ RemoveMessageParser \/ Privmsg \/ CommandSettle \/ ParserDispatch
    \/ ParserSettle \/ Emit \/ EmitSettle \/ InjectStream \/ InjectSettle
    \/ Shutdown
    \/ Return

\* the plugin running, with one init, shutdown or send call left to make
PipelineInit ==
  FloodUnused /\ SplitIdle /\ DispatchIdle /\ PluginRunning
    /\ calls = MaxCalls - 1

PipelineSpec == PipelineInit /\ [][PipelineNext]_vars

(***************************************************************************)
(* The outbound sender of the channel provider (part_001:24-41, 76-89).    *)
(***************************************************************************)
\* the texts handed to send: at most MaxSend characters, each an "a", a
\* space or a two-byte character
SendChars == {<<"a">>, <<"sp">>, <<"e2">>}
SendTexts == {Flatten(cs) : cs \in UNION {[1..n -> SendChars] : n \in 0..MaxSend}}

\* the values given to setMaxMessageLength: short ones, which make send
\* split, and one above a hundred bytes
SendLengths == (1..MaxLine) \cup {100 + MaxLine}

\* the while loop of splitMessage for one line (message-utils.ts:30-48):
\* the texts of the chunks pushed
RECURSIVE splitLine(_, _, _)
splitLine(rem, line, max) ==
  IF Len(rem) = 0 THEN <<>>
  ELSE IF byteLength(rem) <= max THEN <<rem>>
  ELSE LET r == splitOnce(rem, line, max)
       IN  [i \in 1..Len(r.pushed) |-> r.pushed[i].text]
             \o splitLine(r.remaining, line, max)

\* the for loop of splitMessage over the lines (message-utils.ts:27-49)
RECURSIVE splitAll(_, _)
splitAll(ls, max) ==
  IF ls = <<>> THEN <<>>
  ELSE splitLine(Head(ls), Head(ls), max) \o splitAll(Tail(ls), max)

\* splitMessage (message-utils.ts:21-52)
splitMessage(text, max) ==
  IF max <= 0 THEN <<text>>
  ELSE LET pushed == splitAll(splitLines(text), max)
       IN  SelectSeq(pushed, LAMBDA c : c # <<>>)

\* if (chunk.trim()) (part_001:81)
NotBlank(chunk) == trim(chunk) # <<>>

\* the closures send makes for chunks, the first with the id `id`; each
\* belongs to the call of send that made it
sayFnsOf(channel, cs, id) ==
  {[id |-> id + i - 1, kind |-> "ok", channel |-> channel, text |-> cs[i],
    via |-> "send", send |-> calls] :
     i \in 1..Len(cs)}

\* floodProtector.enqueue(sayFn) for each of the chunks cs in turn
\* (part_001:80-87); say does not throw
RECURSIVE enqueueAll(_, _, _)
enqueueAll(cs, id, s) ==
  IF cs = <<>> THEN s
  ELSE enqueueAll(Tail(cs), id + 1,
         enqueue([id |-> id, kind |-> "ok"],
                 [s EXCEPT !.fromIdle = (s.timer = NoTimer /\ s.queue = <<>>)]))

\* sayFn() for each of the chunks cs in turn, without a pacer
RECURSIVE sayAll(_, _, _)
sayAll(channel, cs, w) ==
  IF cs = <<>> THEN w
  ELSE sayAll(channel, Tail(cs),
              sayFn([channel |-> channel, text |-> Head(cs), via |-> "send"], w))

\* mutant of sendKept: every chunk is handed on
sendKeptAll(cs) == cs

\* the chunks send hands on: chunks.filter of part_001:81
sendKept(cs) == SelectSeq(cs, NotBlank)

\* mutant of sendGuard: send goes on without a client
sendGuardOpen == FALSE

\* if (!ircClient) throw new Error("IRC client not initialized")
sendGuard == ~ircClient

\* ircChannelProvider.send(channel, content) (part_001:76-89)
Send ==
  /\ calls < MaxCalls
  /\ calls' = calls + 1
  /\ \E channel \in {"#c"}, content \in SendTexts :
       IF sendGuard
       THEN /\ lastCall' = [op |-> "send", error |-> "IRC client not initialized",
                            chunks |-> <<>>, arg |-> NoRaw]
            /\ UNCHANGED <<fvars, sayFns, wire>>
       ELSE LET cs == splitMessage(content, maxMsgLength)
                kept == sendKept(cs)
                direct == IF providerPacer THEN <<>> ELSE kept
                paced == IF providerPacer THEN kept ELSE <<>>
                s1 == enqueueAll(paced, nextId, Here)
            IN  /\ lastCall' = [op |-> "send", error |-> "", chunks |-> cs,
                                arg |-> NoRaw]
                /\ sayFns' = sayFns \cup sayFnsOf(channel, paced, nextId)
                /\ Install(s1)
                /\ nextId' = nextId + Len(paced)
                /\ last' = IF paced = <<>> THEN last
                           ELSE [op |-> "enqueue", wasIdle |-> Idle]
                /\ wire' = runAll(ranSince(Here, s1), sayFns',
                                  sayAll(channel, direct, wire))
                /\ now' = now
  /\ UNCHANGED <<floodProtector, currentConfig, ircClient, providerPacer,
                 maxMsgLength, clients, rejoins, host, events, svars, dvars>>

\* the channel provider with the client, the pacer and the length given by
\* its setters (part_001:31-41), the plugin not initialised; or the plugin
\* running with one of the lengths; two calls of send or shutdown are left
\* to make
SendInit ==
  /\ FloodUnused /\ SplitIdle
  /\ registeredCommands = <<>> /\ registeredParsers = <<>>
  /\ dpc = "idle" /\ req = NoCall /\ invoked = <<>> /\ tested = <<>>
  /\ replies = <<>> /\ stages = <<>> /\ handled = NotHandled
  /\ maxMsgLength \in SendLengths
  /\ \/ /\ ctx = FALSE /\ client = FALSE
        /\ floodProtector = FALSE /\ currentConfig = <<>>
        /\ ircClient \in BOOLEAN /\ providerPacer \in BOOLEAN
        /\ clients = IF ircClient THEN <<newClient(DefaultConfig)>> ELSE <<>>
     \/ /\ ctx = TRUE /\ client = TRUE
        /\ floodProtector = TRUE
        /\ currentConfig = <<[DefaultConfig EXCEPT !.maxMessageLength = maxMsgLength,
                                                  !.floodDelay = delay]>>
        /\ ircClient = TRUE /\ providerPacer = TRUE
        /\ clients = <<newClient(DefaultConfig)>>
  /\ rejoins = {} /\ sayFns = {} /\ host = <<>> /\ wire = <<>> /\ events = <<>>
  /\ calls = MaxCalls - 2
  /\ lastCall = NoLastCall

SendNext == Send \/ Shutdown \/ TimerFire \/ Tick

SendSpec == SendInit /\ [][SendNext]_vars

\* the closures replyFn makes for chunks, the first with the id `id`; each
\* belongs to the call of replyFn that made it
replyFnsOf(channel, cs, id) ==
  {[id |-> id + i - 1, kind |-> "ok", channel |-> channel, text |-> cs[i],
    via |-> "reply", send |-> calls] :
     i \in 1..Len(cs)}

\* sayFn() of replyFn for each of the chunks cs in turn, without a pacer
RECURSIVE replyAll(_, _, _)
replyAll(channel, cs, w) ==
  IF cs = <<>> THEN w
  ELSE replyAll(channel, Tail(cs),
                sayFn([channel |-> channel, text |-> Head(cs), via |-> "reply"], w))

\* currentConfig?.maxMessageLength ?? 512 (index.ts:316)
replyLength ==
  IF currentConfig = <<>> THEN 512 ELSE currentConfig[1].maxMessageLength

\* replyFn(msg) of an inbound-message handler (index.ts:314-327), called
\* when the handler of a command or parser replies or the host streams or
\* returns a text
Reply ==
  /\ calls < MaxCalls
  /\ calls' = calls + 1
  /\ \E channel \in {"#c"}, msg \in SendTexts :
       IF ~client
       THEN /\ lastCall' = [op |-> "reply", error |-> "", chunks |-> <<>>,
                            arg |-> NoRaw]
            /\ UNCHANGED <<fvars, sayFns, wire>>
       ELSE LET cs == splitMessage(msg, replyLength)
                kept == SelectSeq(cs, NotBlank)
                direct == IF floodProtector THEN <<>> ELSE kept
                paced == IF floodProtector THEN kept ELSE <<>>
                s1 == enqueueAll(paced, nextId, Here)
            IN  /\ lastCall' = [op |-> "reply", error |-> "", chunks |-> cs,
                                arg |-> NoRaw]
                /\ sayFns' = sayFns \cup replyFnsOf(channel, paced, nextId)
                /\ Install(s1)
                /\ nextId' = nextId + Len(paced)
                /\ last' = IF paced = <<>> THEN last
                           ELSE [op |-> "enqueue", wasIdle |-> Idle]
                /\ wire' = runAll(ranSince(Here, s1), sayFns',
                                  replyAll(channel, direct, wire))
                /\ now' = now
  /\ UNCHANGED <<floodProtector, currentConfig, ircClient, providerPacer,
                 maxMsgLength, clients, rejoins, host, events, svars, dvars>>

\* sends of the channel provider and replies of inbound-message handlers on
\* the one pacer, interleaved with its timer and with shutdown
RelayNext == Send \/ Reply \/ Shutdown \/ TimerFire \/ Tick

RelaySpec == SendInit /\ [][RelayNext]_vars

(***************************************************************************)
(* Lifecycle: init, shutdown and the event handlers of the wire client     *)
(* (index.ts:142-296).                                                     *)
(***************************************************************************)
\* the delay of the kick handler's setTimeout, in ms (index.ts:263)
RejoinDelay == 2000

\* the host configs given to init: server and nick present or not, no
\* channel or two, floodDelay not given, maxMessageLength given
RawConfigs ==
  [server : {"", "s"}, nick : {"", "bot"}, channels : {<<>>, <<"#d", "#c">>},
   floodDelay : {{}}, maxMessageLength : {{MaxBytes}}]

\* value ?? fallback, for an optional value kept as a set of at most one
Default(opt, fallback) == IF opt = {} THEN fallback ELSE CHOOSE v \in opt : TRUE

\* mutant of incomplete: the channel list is not looked at
incompleteChannelsUnchecked(raw) == raw.server = "" \/ raw.nick = ""

\* index.ts:154: !rawConfig?.server || !rawConfig?.nick ||
\* !rawConfig?.channels?.length
incomplete(raw) == raw.server = "" \/ raw.nick = "" \/ Len(raw.channels) = 0

\* index.ts:159-171
configOf(raw) ==
  [server |-> raw.server, nick |-> raw.nick, channels |-> raw.channels,
   floodDelay |-> Default(raw.floodDelay, 500),
   maxMessageLength |-> Default(raw.maxMessageLength, 512)]

\* plugin.init (index.ts:142-205); the host initialises a plugin that is
\* not initialised: one never initialised, or shut down
PluginInit ==
  /\ calls < MaxCalls
  /\ ~ctx
  /\ calls' = calls + 1
  /\ ctx' = TRUE
  /\ host' = host \o <<[op |-> "registerConfigSchema", arg |-> "wopr-plugin-irc"],
                        [op |-> "registerChannelProvider", arg |-> "irc"]>>
  /\ \E raw \in RawConfigs :
       /\ lastCall' = [op |-> "init", error |-> "", chunks |-> <<>>, arg |-> raw]
       /\ IF incomplete(raw)
          THEN UNCHANGED <<currentConfig, floodProtector, providerPacer,
                           maxMsgLength, client, ircClient, clients, wire,
                           queue, timer, delay>>
          ELSE LET config == configOf(raw)
               IN  /\ currentConfig' = <<config>>
                   /\ floodProtector' = TRUE
                   /\ queue' = <<>>
                   /\ timer' = NoTimer
                   /\ delay' = config.floodDelay
                   /\ providerPacer' = TRUE
                   /\ maxMsgLength' = config.maxMessageLength
                   /\ client' = TRUE
                   /\ ircClient' = TRUE
                   /\ clients' = Append(clients, newClient(config))
                   /\ wire' = Append(wire, WireCall(Len(clients) + 1, "connect",
                                                   config.server, <<>>))
  /\ UNCHANGED <<timers, now, nextId, log, recent, discarded, atThrow,
                 clearedSince, last, rejoins, sayFns, events,
                 registeredCommands, registeredParsers, dpc, req, invoked,
                 tested, replies, stages, handled, svars>>

\* the wire clients that emit events: the one connected, which is the
\* newest until shutdown makes it quit
Connected == IF client THEN {Len(clients)} ELSE {}

\* an event of a wire client, as the history keeps it
Event(ev, k, channel, kicked) ==
  [ev |-> ev, client |-> k, channel |-> channel, kicked |-> kicked,
   nick |-> clients[k].userNick, at |-> now, joins |-> <<>>]

\* mutant of registeredJoins: the channels are joined last to first
RECURSIVE registeredJoinsReversed(_, _, _)
registeredJoinsReversed(k, channels, w) ==
  IF channels = <<>> THEN w
  ELSE Append(registeredJoinsReversed(k, Tail(channels), w),
              WireCall(k, "join", Head(channels), <<>>))

\* for (const channel of config.channels) ircClient.join(channel)
RECURSIVE registeredJoins(_, _, _)
registeredJoins(k, channels, w) ==
  IF channels = <<>> THEN w
  ELSE registeredJoins(k, Tail(channels),
                       Append(w, WireCall(k, "join", Head(channels), <<>>)))

\* a wire client emits `registered` (index.ts:236-242): on the first
\* connection and on every reconnection
Registered ==
  /\ Len(events) < MaxEvents
  /\ \E k \in Connected :
       /\ wire' = registeredJoins(k, clients[k].channels, wire)
       /\ events' = Append(events, Event("registered", k, "", ""))
  /\ UNCHANGED <<floodProtector, currentConfig, ircClient, providerPacer,
                 maxMsgLength, clients, rejoins, sayFns, host, calls, lastCall,
                 fvars, svars, dvars>>

\* the nick the `nick in use` handler asks for: `${config.nick}_${n}`, n one
\* of the random numbers
otherNick(nick) == IF nick = "bot" THEN "bot_7" ELSE "other_7"

\* a wire client emits `nick in use` (index.ts:267-272); the server grants
\* the nick asked for, and the client's user.nick follows
NickInUse ==
  /\ Len(events) < MaxEvents
  /\ \E k \in Connected :
       /\ clients[k].userNick = clients[k].nick
       /\ wire' = Append(wire, WireCall(k, "changeNick",
                                        otherNick(clients[k].nick), <<>>))
       /\ clients' = [clients EXCEPT ![k].userNick = otherNick(clients[k].nick)]
       /\ events' = Append(events, Event("nick in use", k, "", ""))
  /\ UNCHANGED <<floodProtector, currentConfig, ircClient, providerPacer,
                 maxMsgLength, rejoins, sayFns, host, calls, lastCall,
                 fvars, svars, dvars>>

\* event.kicked === ircClient.user.nick
kickedIsBot(k, kicked) == kicked = clients[k].userNick

\* mutant of rejoinDeadline: the join is not delayed
rejoinAtOnce == now

\* setTimeout(..., 2000)
rejoinDeadline == now + RejoinDelay

\* a wire client emits `kick` (index.ts:257-264)
Kick ==
  /\ Len(events) < MaxEvents
  /\ \E k \in Connected, channel \in {"#c"},
        kicked \in {"bot", "bot_7"} :
       /\ events' = Append(events, Event("kick", k, channel, kicked))
       /\ rejoins' = IF kickedIsBot(k, kicked)
                     THEN rejoins \cup {[client |-> k, channel |-> channel,
                                         deadline |-> rejoinDeadline,
                                         kick |-> Len(events) + 1]}
                     ELSE rejoins
  /\ UNCHANGED <<floodProtector, currentConfig, ircClient, providerPacer,
                 maxMsgLength, clients, sayFns, host, wire, calls, lastCall,
                 fvars, svars, dvars>>

\* the callback of the kick handler's timer runs (index.ts:260-262)
RejoinFire ==
  /\ \E t \in rejoins :
       /\ now >= t.deadline
       /\ rejoins' = rejoins \ {t}
       /\ wire' = Append(wire, WireCall(t.client, "join", t.channel, <<>>))
       /\ events' = [events EXCEPT ![t.kick].joins = Append(@, now)]
  /\ UNCHANGED <<floodProtector, currentConfig, ircClient, providerPacer,
                 maxMsgLength, clients, sayFns, host, calls, lastCall,
                 fvars, svars, dvars>>

\* time passes while a rejoin is awaited: up to the millisecond before it
\* is due, then to the millisecond it is due
Advance ==
  /\ \E t \in rejoins :
       /\ now < t.deadline
       /\ now' = IF now < t.deadline - 1 THEN t.deadline - 1 ELSE t.deadline
  /\ UNCHANGED <<queue, timer, delay, timers, nextId, log, recent, discarded,
                 atThrow, clearedSince, last, svars, dvars, lvars>>

\* the plugin as loaded: nothing set (index.ts:31-34, part_001:24-29)
LifecycleInit ==
  /\ FloodUnused /\ SplitIdle
  /\ registeredCommands = <<>> /\ registeredParsers = <<>>
  /\ ctx = FALSE /\ client = FALSE
  /\ dpc = "idle" /\ req = NoCall /\ invoked = <<>> /\ tested = <<>>
  /\ replies = <<>> /\ stages = <<>> /\ handled = NotHandled
  /\ floodProtector = FALSE /\ currentConfig = <<>>
  /\ ircClient = FALSE /\ providerPacer = FALSE
  /\ maxMsgLength = 512
  /\ clients = <<>> /\ rejoins = {} /\ sayFns = {}
  /\ host = <<>> /\ wire = <<>> /\ events = <<>>
  /\ calls = 0
  /\ lastCall = NoLastCall

LifecycleNext ==
  PluginInit \/ Shutdown \/ Registered \/ NickInUse \/ Kick \/ RejoinFire
    \/ Advance

LifecycleSpec == LifecycleInit /\ [][LifecycleNext]_vars

(***************************************************************************)
(* Properties of the FloodProtector.                                       *)
(***************************************************************************)
QueueIds == [i \in 1..Len(queue) |-> queue[i].id]
Enqueued == [i \in 1..(nextId - 1) |-> i]
NotDiscarded(a) == a \notin discarded
LastExec == recent[Len(recent)]

\* C1: the actions are executed in exactly the order in which they were
\* enqueued: the executed ids followed by the waiting ids are the enqueued
\* ids, in enqueue order, without those a clear() discarded.
C1_FifoOrder ==
  log \o QueueIds = SelectSeq(Enqueued, NotDiscarded)

\* three actions ran one after the other, the later ones from the timer
C1_Witness ==
  /\ Len(log) >= 3
  /\ discarded = {}
  /\ LastExec.time > 0
  /\ pending >= 1

\* C2: an action starts at least `delay` ms (the delay in force when the
\* previous action ran) after the previous action started, unless it is the
\* first action enqueued to an idle pacer.
C2_MinDelayBetweenExecutions ==
  (Len(recent) = 2 /\ ~recent[2].fromIdle)
    => recent[2].time - recent[1].time >= recent[1].delayVal

\* C3: an enqueue on an idle pacer has run its action when it returns, and
\* nothing is pending.
C3_IdleEnqueueRunsSynchronously ==
  (last.op = "enqueue" /\ last.wasIdle)
    => /\ Len(log) > 0
       /\ log[Len(log)] = nextId - 1
       /\ pending = 0

\* an enqueue on a pacer made idle by a clear() that discarded something
C3_Witness ==
  /\ last.op = "enqueue"
  /\ last.wasIdle
  /\ discarded # {}
  /\ Len(recent) = 2
  /\ LastExec.afterClear
  /\ LastExec.time = recent[1].time

\* C4: after clear() nothing is pending, and an action clear() discarded is
\* never executed.
C4_ClearDiscardsForGood ==
  /\ last.op = "clear" => pending = 0
  /\ \A i \in 1..Len(log) : log[i] \notin discarded

\* after a clear() that discarded an action, a later action ran from the timer
C4_Witness ==
  /\ discarded # {}
  /\ Len(recent) = 2
  /\ \A d \in discarded : recent[1].id > d
  /\ LastExec.time > recent[1].time

\* C5: pending is the number of actions enqueued, not yet executed and not
\* discarded; the action whose cooldown is running is executed and not counted.
C5_PendingCounts ==
  pending = (nextId - 1) - Len(log) - Cardinality(discarded)

\* a cooldown is running with actions waiting, after a clear() discarded some
C5_Witness ==
  /\ timer # NoTimer
  /\ pending >= 1
  /\ discarded # {}
  /\ Len(log) >= 2

\* C6: the armed cooldown timer is due `delay` after its action ran, with the
\* delay that was in force when it was armed, whatever was written to delay
\* since.
C6_DelayWriteKeepsArmedTimer ==
  timer # NoTimer
    => /\ Len(recent) > 0
       /\ LastExec.id = timer
       /\ timers = {[h |-> timer, deadline |-> LastExec.time + LastExec.delayVal]}

\* delay was written while a timer was armed, and a later timer was armed
\* with the new value
C6_Witness ==
  /\ timer # NoTimer
  /\ Len(recent) = 2
  /\ ~recent[2].afterClear
  /\ recent[2].delayVal # recent[1].delayVal
  /\ delay # recent[2].delayVal

\* C7: an action that throws drops no other action: those waiting when it
\* threw are still waiting afterwards, and each is executed later (unless a
\* clear() discards it).  The second part is stated for the states in which
\* a further enqueue call is still possible, so that no run is cut short by
\* MaxActions.
C7_ThrowDropsNothing ==
  /\ [][\A a \in atThrow' \ atThrow : a \in Range(QueueIds')]_vars
  /\ \A a \in 1..MaxActions :
       (a \in atThrow /\ nextId <= MaxActions)
         ~> (a \in Range(log) \/ a \in discarded)

(***************************************************************************)
(* Properties of splitMessage.                                             *)
(***************************************************************************)
Returned == pc = "done" /\ maxBytes > 0

\* a string in which every surrogate has its partner
WellFormed(s) ==
  \A k \in 1..Len(s) :
    /\ s[k] = "hi" => (k < Len(s) /\ s[k + 1] = "lo")
    /\ s[k] = "lo" => (k > 1 /\ s[k - 1] = "hi")

NotSpace(u) == ~IsSpace(u)
StripSpace(s) == SelectSeq(s, NotSpace)

Spaces(n) == [i \in 1..n |-> "sp"]

\* what is put back behind a chunk: with exact, all the whitespace the cut
\* trimmed away; without, a single space where a cut trimmed whitespace
\* away and nothing at a hard cut
Separator(c, exact) ==
  IF exact THEN Spaces(c.trimmed)
  ELSE IF c.trimmed > 0 THEN <<"sp">> ELSE <<>>

\* the chunks of line k, each followed by its separator, concatenated
RECURSIVE LineText(_, _, _)
LineText(cs, k, exact) ==
  IF cs = <<>> THEN <<>>
  ELSE (IF Head(cs).line = k
        THEN Head(cs).text \o Separator(Head(cs), exact)
        ELSE <<>>)
         \o LineText(Tail(cs), k, exact)

\* the lines 1..k reassembled, a line feed between two lines
RECURSIVE JoinLines(_, _)
JoinLines(k, exact) ==
  IF k = 0 THEN <<>>
  ELSE IF k = 1 THEN LineText(chunks, 1, exact)
  ELSE JoinLines(k - 1, exact) \o <<"nl">> \o LineText(chunks, k, exact)

\* C8 as stated: every chunk returned for maxBytes > 0 has at most maxBytes
\* bytes in UTF-8.
C8_ChunksWithinMaxBytes ==
  Returned => \A i \in 1..Len(result) : byteLength(result[i]) <= maxBytes

\* C8 as amended: every chunk returned for maxBytes > 0 has at most maxBytes
\* bytes in UTF-8, or is one single code unit that alone is wider than
\* maxBytes (which takes maxBytes < 3).
C8_ChunksWithinMaxBytesOrOneUnit ==
  Returned => \A i \in 1..Len(result) :
                \/ byteLength(result[i]) <= maxBytes
                \/ Len(result[i]) = 1 /\ maxBytes < 3

\* a text with a multi-byte character cut into three chunks or more, one of
\* them filling maxBytes exactly
C8_Witness ==
  /\ Returned
  /\ Len(result) >= 3
  /\ \E i \in 1..Len(result) :
       /\ "e2" \in Range(result[i])
       /\ Len(result[i]) >= 2
       /\ byteLength(result[i]) = maxBytes

\* C9: no character is divided between two chunks: every chunk of a
\* well-formed text is well-formed.
C9_NoCharacterDivided ==
  Returned => \A i \in 1..Len(result) : WellFormed(result[i])

\* C10 as stated: the chunks, with a single space at each cut that trimmed
\* whitespace, nothing at the other cuts and a line feed between lines, give
\* the message back.
C10_ReassemblyReproducesText ==
  Returned => JoinLines(Len(lines), FALSE) = message

\* C10 as amended: the only characters lost are the whitespace trimmed at a
\* cut and the line separators: the chunks with the trimmed whitespace put
\* back and a line feed between lines give the message back, and the chunks
\* returned hold the characters of the message that are not whitespace, each
\* once and in order.
C10_OnlyTrimmedSpaceLost ==
  Returned =>
    /\ JoinLines(Len(lines), TRUE) = message
    /\ StripSpace(Flatten(result)) = StripSpace(message)

\* a cut that trimmed two spaces, and a cut that trimmed nothing
C10_Witness ==
  /\ Returned
  /\ Len(result) >= 3
  /\ \E i \in 1..Len(chunks) : chunks[i].trimmed >= 2
  /\ \E i \in 1..(Len(chunks) - 1) :
       chunks[i].trimmed = 0 /\ chunks[i + 1].line = chunks[i].line

\* C11: splitMessage of the empty text returns the empty sequence (no chunk
\* at all, not one empty chunk) for every maxBytes, zero and negative
\* included.
C11_EmptyTextGivesNoChunk ==
  (pc = "done" /\ message = <<>>) => result = <<>>

(***************************************************************************)
(* Properties of the command dispatch.                                     *)
(***************************************************************************)
\* a step that starts a call: the Maps are those the call reads, the
\* primed history is that of the call up to its first await
CallStep == dpc = "idle" /\ dpc' # "idle"

\* the text starts, once trimmed, with the prefix
HasPrefix(content, prefix) == startsWith(trim(content), prefix)

\* the command word: the code units between the prefix and the first
\* whitespace behind it
RECURSIVE firstWord(_)
firstWord(s) ==
  IF s = <<>> \/ IsSpace(s[1]) THEN <<>> ELSE <<s[1]>> \o firstWord(Tail(s))

CommandWord(content, prefix) ==
  firstWord(sliceFrom(trim(content), Len(prefix)))

\* the tokens behind the command word
ArgsOf(content, prefix) ==
  LET rest == sliceFrom(trim(content),
                        Len(prefix) + Len(CommandWord(content, prefix)))
  IN  IF trimStart(rest) = <<>> THEN <<>>
      ELSE splitWhitespace(trimStart(rest), <<>>)

SameUpToCase(v, w) == toLowerCase(v) = toLowerCase(w)

\* the registered names equal to the command word, exactly or up to case
NamedExactly(content, prefix, cmds) ==
  {i \in 1..Len(cmds) : cmds[i].key = CommandWord(content, prefix)}

NamedUpToCase(content, prefix, cmds) ==
  {i \in 1..Len(cmds) :
     SameUpToCase(cmds[i].key, CommandWord(content, prefix))}

\* C12: handleRegisteredCommand returns false, invokes no command handler
\* and sends no reply when the trimmed text does not start with the prefix,
\* or when the command word behind the prefix is not a registered name
\* (names are compared without regard to case).
C12_NotACommandIsUnhandled ==
  /\ [][(/\ CallStep
         /\ \/ ~HasPrefix(req'.content, req'.prefix)
            \/ NamedUpToCase(req'.content, req'.prefix,
                             registeredCommands) = {})
        => (/\ handled'.command = "false"
            /\ invoked' = <<>>
            /\ replies' = <<>>)]_vars
  /\ [](handled.command = "false" =>
          /\ \A i \in 1..Len(invoked) : invoked[i].kind # "command"
          /\ req.fn = "handleRegisteredCommand" =>
               (dpc = "done" /\ replies = <<>>))

\* a text with the prefix and a word that is not registered, and a text
\* without the prefix whose first word is registered, both unhandled
C12_Witness ==
  /\ req.fn = "handleRegisteredCommand"
  /\ dpc = "done"
  /\ handled.command = "false"
  /\ registeredCommands # <<>>
  /\ \/ /\ HasPrefix(req.content, req.prefix)
        /\ req.prefix = <<"!", "!">>
        /\ CommandWord(req.content, req.prefix) = <<"a", "a">>
     \/ /\ ~HasPrefix(req.content, req.prefix)
        /\ req.prefix = <<"!", "!">>
        /\ trim(req.content) = <<"!", "a">>

\* the context a command handler is to be given
CommandContext(cmd) ==
  [kind |-> "command", key |-> cmd.name, handler |-> cmd.handler,
   channel |-> req'.channel, channelType |-> "irc", sender |-> req'.sender,
   args |-> ArgsOf(req'.content, req'.prefix), content |-> <<>>]

\* C13: when the text starts with the prefix and names a registered
\* command, the handler of that command is invoked exactly once, with the
\* given channel and sender, channelType "irc" and the whitespace-split
\* tokens behind the command word as args, in their order; no other
\* handler is invoked, and the call returns true.
C13_NamedCommandRunsOnce ==
  /\ [][(/\ CallStep
         /\ HasPrefix(req'.content, req'.prefix)
         /\ NamedExactly(req'.content, req'.prefix, registeredCommands) # {})
        => \E i \in NamedExactly(req'.content, req'.prefix,
                                 registeredCommands) :
             /\ invoked' = <<CommandContext(registeredCommands[i].value)>>
             /\ dpc' = "command"]_vars
  /\ []((req.fn = "handleRegisteredCommand" /\ dpc = "done"
           /\ invoked # <<>>)
        => (Len(invoked) = 1 /\ handled.command = "true"))

\* C14: when the handler of the matched command throws or rejects, the
\* error is not passed on: exactly one reply "Error executing
\* {prefix}{name}: {error}" is sent through the reply closure, and the call
\* returns true.
C14_HandlerErrorIsReplied ==
  handled.threw = "command" =>
    /\ handled.command = "true"
    /\ Len(invoked) = 1
    /\ Cardinality({i \in 1..Len(replies) :
                      replies[i].msg[1] = "Error executing "}) = 1
    /\ replies[Len(replies)].msg =
         <<"Error executing ">> \o req.prefix \o invoked[1].key
           \o <<": ", "Error: boom">>

\* a handler that replied and then threw, in a call with a two-unit prefix
C14_Witness ==
  /\ req.fn = "handleRegisteredCommand"
  /\ dpc = "done"
  /\ handled.threw = "command"
  /\ req.prefix = <<"!", "!">>
  /\ Len(replies) = 2

\* C15: command names are matched without regard to case: a command
\* registered under a name is dispatched for every message whose command
\* word equals that name up to letter case, names registered with
\* upper-case letters included.
C15_NamesMatchUpToCase ==
  [][(/\ CallStep
      /\ HasPrefix(req'.content, req'.prefix)
      /\ NamedUpToCase(req'.content, req'.prefix, registeredCommands) # {})
     => (/\ Len(invoked') = 1
         /\ SameUpToCase(invoked'[1].key,
                         CommandWord(req'.content, req'.prefix)))]_vars

(***************************************************************************)
(* Properties of the parser dispatch and of the inbound pipeline.          *)
(***************************************************************************)
\* the step in which handleRegisteredParsers runs its loop
ParserStep == dpc = "parsers" /\ dpc' # "parsers"

\* the pattern matches the text: /a/ finds an "a", the predicate an "A"
PatternMatches(pattern, content) ==
  IF pattern = "fnUpper" THEN "A" \in Range(content)
  ELSE "a" \in Range(content)

\* the entries of the Map whose pattern matches the text
Matching(ps, content) ==
  {i \in 1..Len(ps) : PatternMatches(ps[i].value.pattern, content)}

Keys(m) == [i \in 1..Len(m) |-> m[i].key]

ParserCalls == {i \in 1..Len(invoked) : invoked[i].kind = "parser"}

\* C16: handleRegisteredParsers tests the patterns in registration order
\* and invokes the handler of the first parser whose pattern matches, once;
\* no parser registered later has its pattern tested or its handler
\* invoked; when none matches, no handler is invoked and the result is
\* false.
C16_FirstMatchingParserOnly ==
  /\ [][ParserStep =>
          LET ps == registeredParsers
              m == Matching(ps, req.content)
          IN  IF m = {}
              THEN /\ tested' = Keys(ps)
                   /\ invoked' = invoked
                   /\ handled'.parser = "false"
              ELSE LET f == CHOOSE i \in m : \A j \in m : i <= j
                   IN  /\ tested' = SubSeq(Keys(ps), 1, f)
                       /\ Len(invoked') = Len(invoked) + 1
                       /\ invoked'[Len(invoked')].kind = "parser"
                       /\ invoked'[Len(invoked')].key = ps[f].key
                       /\ invoked'[Len(invoked')].content = req.content
                       /\ dpc' = "parser"]_vars
  /\ [](/\ Cardinality(ParserCalls) <= 1
        /\ \A i \in ParserCalls : invoked[i].key = tested[Len(tested)])

\* two parsers that both match the text: the first is tested and invoked,
\* the second is not tested
C16_Witness ==
  /\ dpc = "parser"
  /\ Len(registeredParsers) = 2
  /\ Matching(registeredParsers, req.content) = {1, 2}
  /\ tested = <<registeredParsers[1].key>>
  /\ Cardinality(ParserCalls) = 1

\* C17: when the handler of the first matching parser throws,
\* handleRegisteredParsers returns false, the error is not passed on, and
\* no parser behind it is tried.
C17_ParserErrorIsUnhandled ==
  handled.threw = "parser" =>
    /\ handled.parser = "false"
    /\ dpc \in {"emit", "emitting", "injecting", "done"}
    /\ Cardinality(ParserCalls) = 1
    /\ \A i \in ParserCalls : invoked[i].key = tested[Len(tested)]

\* the first of two matching parsers threw
C17_Witness ==
  /\ handled.threw = "parser"
  /\ Len(registeredParsers) = 2
  /\ Matching(registeredParsers, req.content) = {1, 2}
  /\ tested = <<registeredParsers[1].key>>

StageAt(name) == {i \in 1..Len(stages) : stages[i] = name}

\* C18: the stages of the pipeline run in the order strip, command
\* dispatch, parser dispatch, emit, inject: the parsers are tried only when
\* the command dispatch returned unhandled, emit and inject are called
\* only when both dispatches returned unhandled, and emit has completed
\* when inject is called.
C18_StagesInOrder ==
  req.fn = "privmsg" =>
    /\ Len(stages) >= 2 /\ stages[1] = "strip" /\ stages[2] = "command"
    /\ StageAt("parsers") \subseteq {3}
    /\ StageAt("emit") \subseteq {4}
    /\ StageAt("emit done") \subseteq {5}
    /\ StageAt("inject") \subseteq {6}
    /\ \A i \in 4..Len(stages) : stages[i - 1] # "emit rejected"
    /\ Len(stages) >= 3 => (stages[3] = "parsers"
                            /\ handled.command = "false")
    /\ Len(stages) >= 4 => (stages[4] = "emit"
                            /\ handled.command = "false"
                            /\ handled.parser = "false")
    /\ Len(stages) >= 6 => (stages[5] = "emit done" /\ stages[6] = "inject")
    /\ tested # <<>> => Len(stages) >= 3
    /\ ParserCalls # {} => Len(stages) >= 3

\* a message that went through every stage
C18_Witness ==
  /\ req.fn = "privmsg"
  /\ dpc = "done"
  /\ stages = <<"strip", "command", "parsers", "emit", "emit done",
                "inject", "inject done">>
  /\ registeredCommands # <<>>
  /\ registeredParsers # <<>>

\* C19: a message whose matched command handler throws is consumed: no
\* parser pattern is tested, no parser handler runs, and neither emit nor
\* inject is called.
C19_FailedCommandConsumes ==
  (req.fn = "privmsg" /\ handled.threw = "command") =>
    /\ dpc = "done"
    /\ stages = <<"strip", "command">>
    /\ tested = <<>>
    /\ ParserCalls = {}

\* the command threw while a parser that matches the text is registered
C19_Witness ==
  /\ req.fn = "privmsg"
  /\ handled.threw = "command"
  /\ ctx
  /\ Matching(registeredParsers, req.content) # {}

\* C20 as stated: a message that is not a command and whose first matching
\* parser's handler throws has both emit and inject called.
C20_FailedParserReachesHost ==
  (req.fn = "privmsg" /\ handled.threw = "parser" /\ dpc = "done") =>
    (StageAt("emit") # {} /\ StageAt("inject") # {})

\* C20 as amended: the message goes on to the host path exactly as one that
\* no parser matched: emit is called if the context is still set when the
\* parser dispatch has returned, and inject is called if emit has completed
\* and the context is still set then.
C20_FailedParserFallsThrough ==
  (req.fn = "privmsg" /\ handled.parser = "false") =>
    /\ dpc \in {"emit", "emitting", "injecting", "done"}
    /\ (dpc # "emit" /\ ctx) => StageAt("emit") # {}
    /\ (dpc = "done" /\ ctx) =>
         (StageAt("inject") # {} \/ StageAt("emit rejected") # {})
    /\ dpc = "emitting" => stages[Len(stages)] = "emit"
    /\ dpc = "injecting" => stages[Len(stages)] = "inject"

\* the parser threw, and emit and inject were called
C20_Witness ==
  /\ req.fn = "privmsg"
  /\ handled.threw = "parser"
  /\ dpc = "done"
  /\ StageAt("emit") # {}
  /\ StageAt("inject") # {}

(***************************************************************************)
(* Inject failure (index.ts:347-367).                                      *)
(***************************************************************************)
\* the step in which inject settles by rejecting
InjectFails ==
  /\ dpc = "injecting"
  /\ dpc' = "done"
  /\ stages' = Append(stages, "inject failed")

\* the references that make up the connection state
Connection == <<client, floodProtector, currentConfig, ircClient, providerPacer>>

\* C21, as stated: once inject has failed for a message, no reply has been
\* handed to the wire client for that message.
C21_FailedInjectLeavesNoReply ==
  StageAt("inject failed") # {} => \A k \in 1..Len(replies) : ~replies[k].sent

\* C21, amended: the rejection of inject is caught inside the pipeline (the
\* call ends normally), the step in which it is caught sends no reply and
\* leaves the client, pacer and config references as they are; a text the
\* host streamed before it rejected has been sent and stays sent.
C21_FailedInjectAddsNoReply ==
  [][InjectFails => replies' = replies /\ UNCHANGED Connection]_vars

\* inject has failed after a streamed text went out
C21_Witness ==
  /\ StageAt("inject failed") # {}
  /\ dpc = "done"
  /\ client
  /\ \E k \in 1..Len(replies) : replies[k].sent /\ replies[k].msg = StreamText

(***************************************************************************)
(* The outbound sender (part_001:76-89).                                   *)
(***************************************************************************)
\* the step of a call of send
SendStep == calls' = calls + 1 /\ lastCall'.op = "send"

\* the calls of say in a history of wire calls
Says(w) == SelectSeq(w, LAMBDA c : c.op = "say")

\* C22: a call of send made while the provider holds no wire client (the
\* state a shutdown leaves, too) rejects with "IRC client not initialized",
\* hands nothing to the pacer and says nothing.
C22_SendWithoutClientRejects ==
  [][/\ lastCall.op = "shutdown" => ~ircClient
     /\ (SendStep /\ ~ircClient) =>
          /\ lastCall'.error = "IRC client not initialized"
          /\ queue' = queue /\ nextId' = nextId /\ sayFns' = sayFns
          /\ timer' = timer /\ log' = log
          /\ wire' = wire]_vars

\* send was rejected after the running plugin had been shut down
C22_Witness ==
  /\ lastCall.op = "send"
  /\ lastCall.error = "IRC client not initialized"
  /\ \E k \in 1..Len(wire) : wire[k].op = "quit"
  /\ Says(wire) = <<>>

\* C23: every text handed to the wire client's say has at most
\* maxMessageLength - 100 bytes in UTF-8: the content is split against the
\* configured length less the reserve of 100 bytes (stated for the lengths
\* that leave a budget).
C23_SaidWithinReservedBudget ==
  maxMsgLength > 100 =>
    \A k \in 1..Len(wire) :
      wire[k].op = "say" => byteLength(wire[k].text) <= maxMsgLength - 100

\* the ids of the actions executed or waiting, oldest first
Handed(lg, q) == lg \o [i \in 1..Len(q) |-> q[i].id]

\* the text of the closure send made under id, given the closures fns
TextOf(id, fns) == (CHOOSE f \in fns : f.id = id).text

Texts2(w) == [i \in 1..Len(w) |-> w[i].text]

\* C24: with a pacer set, send enqueues one action per non-blank chunk, in
\* chunk order, and every say is the execution of such an action by the
\* pacer; without a pacer send says each non-blank chunk at once, in chunk
\* order; a chunk of whitespace only is never said.
C24_SendGoesThroughPacer ==
  [][/\ providerPacer =>
          Texts2(Says(wire)) = [i \in 1..Len(log) |-> TextOf(log[i], sayFns)]
     /\ \A k \in 1..Len(wire') : wire'[k].op = "say" => NotBlank(wire'[k].text)
     /\ (SendStep /\ ircClient) =>
          LET expected == SelectSeq(lastCall'.chunks, NotBlank)
              n == Len(expected)
          IN  IF providerPacer
              THEN /\ nextId' = nextId + n
                   /\ \A i \in 1..n : TextOf(nextId + i - 1, sayFns') = expected[i]
                   /\ Handed(log', queue')
                        = Handed(log, queue) \o [i \in 1..n |-> nextId + i - 1]
                   /\ Texts2(Says(wire'))
                        = [i \in 1..Len(log') |-> TextOf(log'[i], sayFns')]
              ELSE /\ Texts2(Says(wire')) = Texts2(Says(wire)) \o expected
                   /\ queue' = queue /\ log' = log /\ timer' = timer]_vars

\* with a pacer, a text sent in two chunks has been said chunk by chunk
C24_Witness ==
  /\ providerPacer
  /\ lastCall.op = "send"
  /\ Len(lastCall.chunks) = 2
  /\ lastCall.chunks[1] # lastCall.chunks[2]
  /\ Len(log) >= 2
  /\ Texts2(Says(wire)) = lastCall.chunks
  /\ \E t \in timers : TRUE

(***************************************************************************)
(* Lifecycle (index.ts:142-296).                                           *)
(***************************************************************************)
\* the steps of a call of init and of shutdown
InitStep == calls' = calls + 1 /\ lastCall'.op = "init"
ShutdownStep == calls' = calls + 1 /\ lastCall'.op = "shutdown"

\* a host config that lacks server, nick or a non-empty channel list
Lacking(raw) == raw.server = "" \/ raw.nick = "" \/ raw.channels = <<>>

\* the client, pacer and config references are null, in index.ts and in the
\* channel provider
Unconfigured ==
  /\ ~client /\ ~floodProtector /\ currentConfig = <<>>
  /\ ~ircClient /\ ~providerPacer

Calls(w, op) == SelectSeq(w, LAMBDA c : c.op = op)

\* C25: an init whose host config lacks server, nick or a non-empty channel
\* list raises no error, creates no wire client and calls no connect, and
\* leaves the client, pacer and config references null; they stay null,
\* and no wire client is created or connected, in every step that is not
\* an init, and an init is made only on a plugin that was shut down.
C25_IncompleteConfigStaysUnconfigured ==
  [][/\ (InitStep /\ Lacking(lastCall'.arg)) =>
          /\ lastCall'.error = ""
          /\ clients' = clients
          /\ wire' = wire
          /\ Unconfigured'
     /\ (Unconfigured /\ ~InitStep) =>
          /\ Unconfigured'
          /\ clients' = clients
          /\ Calls(wire', "connect") = Calls(wire, "connect")
     /\ InitStep => (~ctx /\ Unconfigured)]_vars

\* a plugin that ran and was shut down has been initialised again, with a
\* config that lacks only the channels
C25_Witness ==
  /\ lastCall.op = "init"
  /\ Lacking(lastCall.arg)
  /\ lastCall.arg.server # ""
  /\ lastCall.arg.nick # ""
  /\ ctx
  /\ Unconfigured
  /\ Len(clients) = 1
  /\ Calls(wire, "connect") # <<>>
  /\ Calls(wire, "quit") # <<>>

\* the step in which a wire client emits the event ev
EventStep(ev) ==
  /\ Len(events') = Len(events) + 1
  /\ events'[Len(events')].ev = ev

Args(w) == [i \in 1..Len(w) |-> w[i].arg]

\* C26: on each `registered` event the wire client that emitted it is told
\* to join every configured channel once, in the configured order, and is
\* told nothing else.
C26_RegisteredJoinsConfigured ==
  [][EventStep("registered") =>
       LET k == events'[Len(events')].client
           channels == currentConfig[1].channels
       IN  /\ Len(wire') = Len(wire) + Len(channels)
           /\ SubSeq(wire', 1, Len(wire)) = wire
           /\ \A i \in 1..Len(channels) :
                wire'[Len(wire) + i] =
                  [client |-> k, op |-> "join", arg |-> channels[i],
                   text |-> <<>>]]_vars

\* the client registered twice (it reconnected) and joined its two channels
\* each time
C26_Witness ==
  /\ Len(events) = 2
  /\ \A i \in 1..2 : events[i].ev = "registered"
  /\ Args(Calls(wire, "join")) = <<"#d", "#c", "#d", "#c">>

\* the step in which a timer of the kick handler runs
RejoinStep == rejoins' # rejoins /\ rejoins' \subseteq rejoins

\* C27: a kick of the nick the bot has at that moment leads to one join of
\* the channel of the event, on the client that was kicked, run by a timer
\* no earlier than 2000 ms after the event (the timer is pending until
\* then, and is set for that moment); the kick event itself joins nothing,
\* a kick of any other nick arms no timer and leads to no join, and a join
\* is only ever made for a `registered` event or by such a timer.
C27_KickedBotRejoinsAfterDelay ==
  [][/\ \A i \in 1..Len(events) :
          events[i].ev = "kick" =>
            LET e == events[i]
                armed == {t \in rejoins : t.kick = i}
            IN  IF e.kicked = e.nick
                THEN \/ /\ e.joins = <<>>
                        /\ armed = {[client |-> e.client, channel |-> e.channel,
                                     deadline |-> e.at + 2000, kick |-> i]}
                     \/ /\ armed = {}
                        /\ Len(e.joins) = 1
                        /\ e.joins[1] >= e.at + 2000
                ELSE armed = {} /\ e.joins = <<>>
     /\ EventStep("kick") => wire' = wire
     /\ RejoinStep =>
          \E t \in rejoins \ rejoins' :
            /\ rejoins' = rejoins \ {t}
            /\ now >= events[t.kick].at + 2000
            /\ events'[t.kick].joins = <<now>>
            /\ wire' = Append(wire, [client |-> t.client, op |-> "join",
                                     arg |-> events[t.kick].channel,
                                     text |-> <<>>])
     /\ Calls(wire', "join") # Calls(wire, "join") =>
          (RejoinStep \/ EventStep("registered"))]_vars

\* the bot was kicked under the nick it had taken and has rejoined 2000 ms
\* later; a kick of its configured nick, which it no longer has, led to
\* nothing
C27_Witness ==
  /\ Len(events) = 3
  /\ events[1].ev = "nick in use"
  /\ events[2].ev = "kick" /\ events[2].kicked = "bot_7"
  /\ events[2].joins = <<events[2].at + 2000>>
  /\ events[3].ev = "kick" /\ events[3].kicked = "bot"
  /\ events[3].at > events[2].at
  /\ rejoins = {}
  /\ Args(Calls(wire, "join")) = <<"#c">>

\* C28: no call of shutdown raises an error; a shutdown that follows a
\* shutdown, or that is made with no init before it, changes no state and
\* makes no call on the host or on a wire client; no wire client is told
\* to quit twice, and quit is called at most once per init.
C28_ShutdownIsIdempotent ==
  [][/\ ShutdownStep => lastCall'.error = ""
     /\ (ShutdownStep /\ lastCall.op \in {"shutdown", "none"}) =>
          UNCHANGED <<fvars, svars, dvars, floodProtector, currentConfig,
                      ircClient, providerPacer, maxMsgLength, clients,
                      rejoins, sayFns, host, wire, events>>
     /\ \A k \in 1..Len(clients') :
          Len(SelectSeq(Calls(wire', "quit"), LAMBDA c : c.client = k)) <= 1
     /\ Len(Calls(wire', "quit")) <= Len(Calls(host', "registerConfigSchema"))
    ]_vars

\* init with a complete config, then shutdown twice: one quit, one
\* deregistration
C28_Witness ==
  /\ calls = 3
  /\ lastCall.op = "shutdown"
  /\ Len(Calls(host, "registerConfigSchema")) = 1
  /\ Len(Calls(host, "unregisterChannelProvider")) = 1
  /\ Len(Calls(wire, "connect")) = 1
  /\ Len(Calls(wire, "quit")) = 1
  /\ Unconfigured /\ ~ctx

\* the calls appended to a history by a step
Added(before, after) == SubSeq(after, Len(before) + 1, Len(after))

\* C29: the shutdown that follows an init makes the host calls
\* unregisterChannelProvider("irc") and
\* unregisterConfigSchema("wopr-plugin-irc"), and tells the wire client the
\* init created, if it created one, to quit.
C29_ShutdownDeregistersFromHost ==
  [][(ShutdownStep /\ lastCall.op = "init") =>
       /\ \E c \in Range(Added(host, host')) :
            c = [op |-> "unregisterChannelProvider", arg |-> "irc"]
       /\ \E c \in Range(Added(host, host')) :
            c = [op |-> "unregisterConfigSchema", arg |-> "wopr-plugin-irc"]
       /\ client => \E c \in Range(Added(wire, wire')) :
                      c.op = "quit" /\ c.client = Len(clients)]_vars

\* C30: a shutdown leaves the command table and the parser table empty.
C30_ShutdownEmptiesDispatchTables ==
  [][ShutdownStep =>
       (registeredCommands' = <<>> /\ registeredParsers' = <<>>)]_vars

(***************************************************************************)
(* The pacer's timer, and what is left over after shutdown.                *)
(***************************************************************************)
\* C31: at most one cooldown timer is outstanding, and it is the one the
\* timer field holds.
C31_OneTimerOutstanding ==
  /\ Cardinality(timers) <= 1
  /\ \A t \in timers : t.h = timer

\* C32: once shutdown has made a wire client quit, nothing invokes say or
\* join on that client any more: no pacer cooldown, no reply of a suspended
\* handler, no timer of the kick handler.
C32_NothingRunsAfterShutdown ==
  \A i \in 1..Len(wire) : \A j \in (i + 1)..Len(wire) :
    wire[i].op = "quit" =>
      ~(wire[j].client = wire[i].client /\ wire[j].op \in {"say", "join"})


(***************************************************************************)
(* Streamed text and final response (index.ts:347-367).                    *)
(***************************************************************************)
\* the reply with this text has been handed to the wire client
Replied(text) == \E k \in 1..Len(replies) : replies[k].sent /\ replies[k].msg = text

\* C33: for one inbound message the final response of inject is sent only if
\* no text was streamed for it; the channel never gets both the streamed text
\* and the final response.
C33_ResponseOnlyIfNothingStreamed ==
  ~(Replied(StreamText) /\ Replied(ResponseText))


(***************************************************************************)
(* Progress of the pacer (message-utils.ts:111-128).                       *)
(***************************************************************************)
\* C34: with timers that fire when due, every action waiting in the queue is
\* eventually executed or discarded by a clear(), whether or not an action
\* executed before it threw, and without a further enqueue call.
C34_EveryQueuedActionRuns ==
  \A a \in 1..MaxActions :
    (a \in Range(QueueIds)) ~> (a \in Range(log) \/ a \in discarded)


(***************************************************************************)
(* Order of the chunks of concurrent sends (part_001:76-89,                *)
(* message-utils.ts:111-128).                                              *)
(***************************************************************************)
\* the closure send or replyFn made with this id
Closure(id) == CHOOSE f \in sayFns : f.id = id

\* the closures the pacer has run, in the order it ran them
Ran == [i \in 1..Len(log) |-> Closure(log[i])]

\* the calls of say that reached the wire client
Said == SelectSeq(wire, LAMBDA c : c.op = "say")

\* C35: with several replies and sends in flight on one pacer, the chunks of
\* one reply or send call reach say contiguously and in chunk order: between
\* two chunks of a call only chunks of that call are run, the earlier chunk
\* first, and say is called in the order the pacer runs the closures.
C35_ChunksOfOneSendContiguous ==
  /\ \A i \in 1..Len(log) : \A j \in (i + 1)..Len(log) :
       Ran[i].send = Ran[j].send =>
         /\ Ran[i].id < Ran[j].id
         /\ \A k \in i..j : Ran[k].send = Ran[i].send
  /\ Len(log) > 0 =>
       /\ Len(Said) <= Len(log)
       /\ \A i \in 1..Len(Said) : Said[i].text = Ran[i].text

\* the first chunk of a call has been said while its second chunk and a
\* chunk of a call of the other kind wait in the queue
C35_Witness ==
  /\ Len(log) >= 1
  /\ Len(Said) >= 1
  /\ \E i \in 1..Len(queue) : \E j \in 1..Len(queue) :
       /\ Closure(queue[i].id).send = Ran[1].send
       /\ Closure(queue[j].id).send # Ran[1].send
       /\ Closure(queue[j].id).via # Ran[1].via


(***************************************************************************)
(* The place of the cut (message-utils.ts:37-39, 57-78).                   *)
(***************************************************************************)
\* the length of the largest prefix of text that takes at most max bytes
FittingPrefix(text, max) ==
  CHOOSE n \in 0..Len(text) :
    /\ byteLength(sliceTo(text, n)) <= max
    /\ \A m \in 0..Len(text) : byteLength(sliceTo(text, m)) <= max => m <= n

\* the step of the while loop that cuts a remaining text longer than maxBytes
CutStep ==
  /\ pc = "while"
  /\ Len(remaining) > 0
  /\ byteLength(remaining) > maxBytes
  /\ chunks' # chunks

\* C36: a remaining text longer than maxBytes, of which a prefix fits, is
\* cut at the last space of its largest fitting prefix when that space lies
\* at or after half of the prefix (the chunk is the text before the space
\* and the rest starts after it), and at the end of that prefix otherwise;
\* the chunk is trimmed at its end and the rest at its start.
C36_CutAtSpaceFromHalfOn ==
  [][CutStep =>
       LET end == FittingPrefix(remaining, maxBytes)
           lastSpace == lastIndexOfSpace(sliceTo(remaining, end))
           at == IF lastSpace >= 0 /\ 2 * lastSpace >= end THEN lastSpace ELSE end
           skip == IF at = end THEN 0 ELSE 1
       IN  end > 0 =>
             /\ chunks'[Len(chunks) + 1].text = trimEnd(sliceTo(remaining, at))
             /\ remaining' = trimStart(sliceFrom(remaining, at + skip))]_vars


(***************************************************************************)
(* Termination of splitMessage (message-utils.ts:27-48, 57-89).            *)
(***************************************************************************)
\* the code units of the lines after the current one, one more for each line
RECURSIVE LinesLeft(_)
LinesLeft(k) ==
  IF k > Len(lines) THEN 0 ELSE Len(lines[k]) + 1 + LinesLeft(k + 1)

\* a bound on the number of steps a call of splitMessage has left
StepsLeft ==
  CASE pc = "call" -> Len(message) + 3
    [] pc = "while" -> Len(remaining) + 2 + LinesLeft(li + 1)
    [] pc = "return" -> 1
    [] OTHER -> 0

\* C37: every pass of the while loop that cuts leaves a remaining text
\* shorter by at least one code unit, also when the text has no space or its
\* first code unit alone takes more than maxBytes bytes, and splitMessage
\* terminates: every step lowers a bound on the steps left, and leads to the
\* return or to a place of the loops from which there is a step (the loop
\* on a line of the text, where one of fits, cut and exit applies, or the
\* return statement).
C37_EveryCutShortensAndCallReturns ==
  [][/\ CutStep => Len(remaining') < Len(remaining)
     /\ StepsLeft' < StepsLeft
     /\ StepsLeft' >= 0
     /\ pc' \in {"while", "return", "done"}
     /\ pc' = "while" => li' \in 1..Len(lines')]_vars

\* a text without a space whose first code unit takes more than maxBytes
\* bytes has been cut twice and is not used up
C37_Witness ==
  /\ pc = "while"
  /\ maxBytes > 0
  /\ "sp" \notin Range(message)
  /\ byteLength(sliceTo(message, 1)) > maxBytes
  /\ Len(chunks) >= 2
  /\ Len(remaining) > 0

====
